---------------------------- MODULE Spec2Model ----------------------------
(***************************************************************************)
(* Model of the Nextcloud monitor (ncmonitor_qt.py): the polling engine of *)
(* NextcloudMonitorApp, its recurring QTimer, the NextcloudWorker tasks of *)
(* the QThreadPool, the queued worker signals and the modal dialogs.       *)
(*                                                                         *)
(* The GUI thread runs one handler at a time: every action below is one    *)
(* handler (slot) run to completion, or the part of a handler between two  *)
(* returns to the event loop (a modal dialog's exec() runs a nested event  *)
(* loop, during which timer ticks and worker signals are still handled).   *)
(***************************************************************************)
EXTENDS Integers, Sequences, FiniteSets

VARIABLES
    script_dir,           \* the script's directory: [files, scanned]
    phase,                \* "boot" | "running" | "exited"  (__main__)
    exit_code,            \* sys.exit status, -1 while none
    server_configs,       \* self.server_configs (all_configs)
    current_config,       \* self.current_config
    nc_url,               \* self.nc_url
    nc_token,             \* self.nc_token
    refresh_interval_ms,  \* self.refresh_interval_ms
    refresh_timer,        \* self.refresh_timer: [active, interval, remaining]
    metric_labels,        \* self.metric_labels: key -> text shown
    app_list_text,        \* self.app_list_text
    raw_data_text,        \* self.raw_data_text
    status_bar,           \* text and colour of the status bar
    workers,              \* every NextcloudWorker handed to the thread pool
    signal_queue,         \* worker signals queued for the GUI thread
    modal,                \* stack of open modal dialogs (nested event loops)
    lastOp                \* history: the handler that ran in the last step

vars == <<script_dir, phase, exit_code, server_configs, current_config,
          nc_url, nc_token, refresh_interval_ms, refresh_timer, metric_labels,
          app_list_text, raw_data_text, status_bar, workers, signal_queue,
          modal, lastOp>>

----------------------------------------------------------------------------
(* Bounds of the model *)

\* Total number of workers start_fetch may create in one run.
MaxFetches == 2

\* How far into a timer period the clock may stop before the period ends.
PartWayMs == 5000

\* The largest number of files in a directory listing.
MaxFiles == 3

\* How far from a power of 1024 the large byte counts of the payloads lie.
MaxOffset == 3

----------------------------------------------------------------------------
(* Program constants *)

DEFAULT_REFRESH_INTERVAL_MS == 60000

SPINBOX_MIN_S == 10

SPINBOX_MAX_S == 3600

MS_PER_SECOND == 1000

KB_TO_BYTES == 1024

\* int(time.time()) when update_gui_metrics runs: a day of November 2026.
CurrentTime == 1794000000

----------------------------------------------------------------------------
(* Configurations, as find_and_load_configs builds them *)

NoConfig == [name |-> "", url |-> "", token |-> "", path |-> ""]

\* A file name is <<stem, suffix, extension>>; a configuration's name is the
\* f-string "[{name_prefix}] {name}" kept in its parts.
CfgA == [name |-> <<"[", <<"ncmonitor", "">>, "] ", "a.example">>,
         url |-> "https://a.example",
         token |-> "tokenA", path |-> <<"ncmonitor", "", ".txt">>]

CfgB == [name |-> <<"[", <<"ncmonitor", "_1">>, "] ", "b.example">>,
         url |-> "https://b.example",
         token |-> "tokenB", path |-> <<"ncmonitor", "_1", ".txt">>]

----------------------------------------------------------------------------
(* Configuration files: CONFIG_FILE_PATTERN, read_config_file *)

\* The suffixes made of word characters only ([_\w]+), and the empty one.
WordSuffixes == {"", "_1", "_2", "_3", "_4", "_6"}

\* CONFIG_FILE_PATTERN.match(filename): ncmonitor(?:[_\w]+)?\.txt$
CONFIG_FILE_PATTERN(filename) ==
    /\ filename[1] = "ncmonitor"
    /\ filename[2] \in WordSuffixes
    /\ filename[3] = ".txt"

\* One line of a file: its leading white space and its stripped text.
Line(lead, text) == [lead |-> lead, text |-> text]

\* str.startswith over the texts of the model.
StartsWithHash(text) == text \in {"# Nextcloud monitor", "#disabled"}

StartsWithHttp(text) ==
    text \in {"https://a.example", "https://b.example", "http://c.example/"}

\* nc_url.split('//')[-1].rstrip('/')
HostOf(url) ==
    CASE url = "https://a.example" -> "a.example"
      [] url = "https://b.example" -> "b.example"
      [] url = "http://c.example/" -> "c.example"
      [] OTHER -> url

\* The filter of the list comprehension: line.strip() is not empty and the
\* line itself (not its stripped text) does not start with '#'.
KeptLine(line) ==
    /\ line.text # ""
    /\ ~(line.lead = "" /\ StartsWithHash(line.text))

File(name, readable, lines) ==
    [name |-> name, readable |-> readable, lines |-> lines]

Parsed(url, token) == [ok |-> TRUE, url |-> url, token |-> token]

ParseFailed == [ok |-> FALSE, url |-> "", token |-> ""]

\* read_config_file(config_filepath): the (URL, token) pair, or the
\* exception every failure is turned into.
read_config_file(file) ==
    IF ~file.readable THEN ParseFailed
    ELSE LET lines == SelectSeq(file.lines, KeptLine)
         IN  IF Len(lines) < 2 THEN ParseFailed
             ELSE IF ~StartsWithHttp(lines[1].text) THEN ParseFailed
             ELSE Parsed(lines[1].text, lines[2].text)

\* The dictionary find_and_load_configs appends for one file.
ConfigOf(file, parsed) ==
    [name |-> <<"[", <<file.name[1], file.name[2]>>, "] ", HostOf(parsed.url)>>,
     url |-> parsed.url, token |-> parsed.token, path |-> file.name]

FileA ==
    File(<<"ncmonitor", "", ".txt">>, TRUE,
         << Line("", "# Nextcloud monitor"), Line("", ""),
            Line("", "https://a.example"), Line("", "tokenA") >>)

FileB ==
    File(<<"ncmonitor", "_1", ".txt">>, TRUE,
         << Line(" ", "https://b.example"), Line("", "#disabled"),
            Line("", "tokenB"), Line("", "spare line") >>)

\* Too few lines once the comment is dropped.
FileShort ==
    File(<<"ncmonitor", "_2", ".txt">>, TRUE,
         << Line("", "https://a.example"), Line("", "#disabled") >>)

\* The first line kept is not a URL.
FileNoUrl ==
    File(<<"ncmonitor", "_3", ".txt">>, TRUE,
         << Line("", "tokenA"), Line("", "https://a.example") >>)

FileUnreadable ==
    File(<<"ncmonitor", "_4", ".txt">>, FALSE, <<>>)

\* An indented comment is kept, and taken for the URL.
FileIndentedComment ==
    File(<<"ncmonitor", "_6", ".txt">>, TRUE,
         << Line(" ", "# Nextcloud monitor"), Line("", "http://c.example/"),
            Line("", "tokenB") >>)

\* Good contents under names the pattern does not match.
FileOtherName ==
    File(<<"notes", "", ".txt">>, TRUE,
         << Line("", "http://c.example/"), Line("", "tokenA") >>)

FileHyphen ==
    File(<<"ncmonitor", "-5", ".txt">>, TRUE,
         << Line("", "http://c.example/"), Line("", "tokenB") >>)

DirFiles ==
    { FileA, FileB, FileShort, FileNoUrl, FileUnreadable,
      FileIndentedComment, FileOtherName, FileHyphen }

\* os.listdir(script_dir) with nothing read yet.
Listing(files) == [files |-> files, scanned |-> 0]

\* The directories the polling model starts from: an empty one, and one
\* where a file that is skipped stands between two good files.
DiscoveredLists == { Listing(<<>>), Listing(<<FileA, FileShort, FileB>>) }

\* The seconds a user may ask the interval dialog for: the default, the two
\* ends of the spin box's range and the values next to them outside it.
RequestedSeconds == {9, 10, 60, 3600, 3601}

----------------------------------------------------------------------------
(* JSON values of the payload, safe_int and format_bytes *)

\* A key the object does not have.
Absent == [t |-> "absent"]

JNull == [t |-> "null"]

JInt(v) == [t |-> "int", v |-> v]

\* A JSON number with a fraction, kept in hundredths: JFloat(150) is 1.5.
JFloat(h) == [t |-> "float", h |-> h]

\* A JSON string: the text of a number ("123", "123.90"), or other text
\* (inner = JNull), or the empty string (inner = Absent).
JStr(inner) == [t |-> "str", inner |-> inner]

JList == [t |-> "list"]

\* A JSON integer too large for the integers of the model: 1024 ** e + o,
\* with 1 <= e <= 9 and o within MaxOffset of 0.  Payloads carry it only in
\* fields that go to format_bytes as they are.
JBig(e, o) == [t |-> "big", e |-> e, o |-> o]

\* dict.get(key, default)
Get(value, default) == IF value = Absent THEN default ELSE value

\* int(float(x)) of a number held in hundredths: truncation towards zero.
Truncate(h) == IF h >= 0 THEN h \div 100 ELSE -((-h) \div 100)

\* safe_int(value): 0 for None and '', int(float(value)) for numbers and
\* the text of numbers, 0 where float() raises ValueError or TypeError.
safe_int(value) ==
    CASE value.t = "null" -> 0
      [] value.t = "int" -> value.v
      [] value.t = "float" -> Truncate(value.h)
      [] value.t = "str" ->
            ( CASE value.inner.t = "int" -> value.inner.v
                [] value.inner.t = "float" -> Truncate(value.inner.h)
                [] OTHER -> 0 )
      [] OTHER -> 0

\* k ** i for the units the model's integers reach (Bytes, KB, MB, GB).
Pow1024(i) ==
    CASE i = 0 -> 1 [] i = 1 -> 1024 [] i = 2 -> 1048576 [] OTHER -> 1073741824

\* math.floor(math.log(bytes_value, k)) for bytes_value > 0.  The floating
\* point logarithm gives the exact index for every value below 1024 ** 5 - 3,
\* which covers the model's integers.
LogFloor(n) ==
    CASE n < Pow1024(1) -> 0
      [] n < Pow1024(2) -> 1
      [] n < Pow1024(3) -> 2
      [] OTHER -> 3

sizes == <<"Bytes", "KB", "MB", "GB", "TB", "PB", "EB", "ZB", "YB">>

\* The quotient a / p (a >= 0) rounded to an integer, ties to even: what
\* the format specification .2f does with a value that is exact in binary.
RoundHalfEven(a, p) ==
    LET q == a \div p
        r == a % p
    IN  IF 2 * r < p THEN q
        ELSE IF 2 * r > p THEN q + 1
        ELSE IF q % 2 = 0 THEN q ELSE q + 1

\* A text shown: the number of a formatted byte count, in hundredths, with
\* its unit, and the words around it.
ByteText(hundredths, unit) ==
    [hundredths |-> hundredths, unit |-> unit, words |-> ""]

\* '0 Bytes', the one text format_bytes writes without decimals.
ZeroBytes == [hundredths |-> 0, unit |-> "Bytes", words |-> "0 Bytes"]

\* A text that is no byte count.
Words(words) == [hundredths |-> 0, unit |-> "", words |-> words]

\* int(float(x)) of 1024 ** e + o, as the offset from 1024 ** e: a float
\* has 53 bits, so from 1024 ** 6 on (2 ** 60, neighbours 128 and 256
\* apart) a value this close to the power becomes the power itself.
FloatOffset(e, o) == IF e >= 6 THEN 0 ELSE o

\* How far below 1024 ** 5 the quotient math.log(n) / math.log(1024) still
\* rounds to 5.0; below the smaller powers it stays under the whole number.
LOG_ROUNDS_UP_BELOW_1024_5 == 3

\* math.floor(math.log(1024 ** e + o, 1024))
LogFloorBig(e, o) ==
    IF o >= 0 THEN e
    ELSE IF e = 5 /\ -o <= LOG_ROUNDS_UP_BELOW_1024_5 THEN e
    ELSE e - 1

\* o / 1024 ** i in hundredths, ties to even.  An offset of the model is
\* less than half a hundredth of every power from 1024 ** 3 on, for which
\* Pow1024 gives 1024 ** 3.
OffsetHundredths(o, i) ==
    IF o >= 0 THEN RoundHalfEven(o * 100, Pow1024(i))
              ELSE -RoundHalfEven((-o) * 100, Pow1024(i))

\* The text for 1024 ** e + o under unit index i, with e - i 0 or 1:
\* (1024 ** e + o) / 1024 ** i = 1024 ** (e - i) + o / 1024 ** i.
BigText(e, o, i) ==
    ByteText(100 * Pow1024(e - i) + OffsetHundredths(o, i), sizes[i + 1])

\* format_bytes of 1024 ** e + o.
format_big(e, o) ==
    LET n == FloatOffset(e, o)
        i == IF LogFloorBig(e, n) < Len(sizes) - 1
             THEN LogFloorBig(e, n) ELSE Len(sizes) - 1
    IN  BigText(e, n, i)

\* format_bytes(bytes_value): a value that is not positive but not zero
\* keeps i = 0 and is shown as it is, sign included.
format_bytes(bytes_value) ==
    LET n == safe_int(bytes_value)
        i == IF n > 0 THEN (IF LogFloor(n) < Len(sizes) - 1
                            THEN LogFloor(n) ELSE Len(sizes) - 1)
                      ELSE 0
    IN  IF bytes_value.t = "big"
        THEN format_big(bytes_value.e, bytes_value.o)
        ELSE IF n = 0 THEN ZeroBytes
        ELSE IF n > 0
             THEN ByteText(RoundHalfEven(n * 100, Pow1024(i)), sizes[i + 1])
             ELSE ByteText(n * 100, sizes[1])

----------------------------------------------------------------------------
(* format_timedelta *)

intervals ==
    << <<"years", 31536000>>, <<"days", 86400>>,
       <<"hours", 3600>>, <<"minutes", 60>> >>

\* name.rstrip('s')
RStripS(name) ==
    CASE name = "years" -> "year"
      [] name = "days" -> "day"
      [] name = "hours" -> "hour"
      [] name = "minutes" -> "minute"
      [] OTHER -> name

\* The loop over intervals from the k-th on: the parts appended to result,
\* each <<value, name>>, and the seconds left over.
RECURSIVE IntervalLoop(_, _)
IntervalLoop(seconds, k) ==
    IF k > Len(intervals) THEN [result |-> <<>>, seconds |-> seconds]
    ELSE LET name == intervals[k][1]
             count == intervals[k][2]
             value == seconds \div count
         IN  IF value # 0
             THEN LET rest == IntervalLoop(seconds - value * count, k + 1)
                  IN  [rest EXCEPT !.result =
                         << <<value, IF value > 1 THEN name
                                                  ELSE RStripS(name)>> >>
                         \o rest.result]
             ELSE IntervalLoop(seconds, k + 1)

\* result[:3]
FirstThree(result) ==
    SubSeq(result, 1, IF Len(result) < 3 THEN Len(result) ELSE 3)

\* A text made of <<number, word>> parts, joined by ', '.
Parts(parts) == [hundredths |-> 0, unit |-> "", words |-> parts]

format_timedelta_every_part(seconds) ==
    LET s == safe_int(seconds)
        loop == IntervalLoop(s, 1)
    IN  IF s <= 0 THEN Parts(<< <<0, "N/A or Fresh Start">> >>)
        ELSE IF loop.result = <<>> /\ loop.seconds > 0
             THEN Parts(<< <<loop.seconds, "seconds">> >>)
        ELSE IF loop.result = <<>>
             THEN Parts(<< <<0, "Just started">> >>)
        ELSE Parts(loop.result)

\* format_timedelta(seconds)
format_timedelta(seconds) ==
    LET s == safe_int(seconds)
        loop == IntervalLoop(s, 1)
    IN  IF s <= 0 THEN Parts(<< <<0, "N/A or Fresh Start">> >>)
        ELSE IF loop.result = <<>> /\ loop.seconds > 0
             THEN Parts(<< <<loop.seconds, "seconds">> >>)
        ELSE IF FirstThree(loop.result) = <<>>
             THEN Parts(<< <<0, "Just started">> >>)
        ELSE Parts(FirstThree(loop.result))

----------------------------------------------------------------------------
(* The app list: data['ocs']['data']['app'] and the lines made of it *)

\* A text is the sequence of its character codes, so that texts can be
\* put in order.  JText is a JSON string with that text, JArray a JSON
\* list of the items, AppEntry a JSON object with (or without) 'id' and
\* 'version'.
JText(chars) == [t |-> "text", chars |-> chars]

JArray(items) == [t |-> "array", items |-> items]

AppEntry(id, version) == [t |-> "dict", id |-> id, version |-> version]

\* 'files', 'mail', 'Notes'
IdFiles == <<102, 105, 108, 101, 115>>

IdMail == <<109, 97, 105, 108>>

IdNotes == <<78, 111, 116, 101, 115>>

\* '1.2', '30.0'
Version12 == <<49, 46, 50>>

Version300 == <<51, 48, 46, 48>>

\* 'Unknown App', 'N/A', ': v' and the newline
UnknownApp == <<85, 110, 107, 110, 111, 119, 110, 32, 65, 112, 112>>

NotAvailable == <<78, 47, 65>>

ColonV == <<58, 32, 118>>

Newline == 10

\* The line appended for one entry of 'enabled': one for an object, one
\* for a string, none for anything else.
AppLine(app) ==
    CASE app.t = "dict" ->
            << Get(app.id, JText(UnknownApp)).chars \o ColonV
                  \o Get(app.version, JText(NotAvailable)).chars >>
      [] app.t = "text" -> << app.chars \o ColonV \o NotAvailable >>
      [] OTHER -> <<>>

RECURSIVE temp_lines(_)
temp_lines(enabled_apps) ==
    IF enabled_apps = <<>> THEN <<>>
    ELSE AppLine(Head(enabled_apps)) \o temp_lines(Tail(enabled_apps))

\* a < b for two texts: by the first code that differs, a prefix first.
RECURSIVE TextLess(_, _)
TextLess(a, b) ==
    IF b = <<>> THEN FALSE
    ELSE IF a = <<>> THEN TRUE
    ELSE IF Head(a) # Head(b) THEN Head(a) < Head(b)
    ELSE TextLess(Tail(a), Tail(b))

RECURSIVE Insert(_, _)
Insert(line, lines) ==
    IF lines = <<>> THEN <<line>>
    ELSE IF TextLess(line, Head(lines)) THEN <<line>> \o lines
    ELSE <<Head(lines)>> \o Insert(line, Tail(lines))

RECURSIVE sorted(_)
sorted(lines) ==
    IF lines = <<>> THEN <<>> ELSE Insert(Head(lines), sorted(Tail(lines)))

\* "\n".join(lines)
RECURSIVE Join(_)
Join(lines) ==
    IF lines = <<>> THEN <<>>
    ELSE IF Len(lines) = 1 THEN lines[1]
    ELSE lines[1] \o <<Newline>> \o Join(Tail(lines))

\* A number displayed as it is, str(n).
Number(n) == [hundredths |-> 100 * n, unit |-> "", words |-> ""]

----------------------------------------------------------------------------
(* The payload: data['ocs']['data'] of an answer whose status is 'ok' *)

\* A group is "dict" (a JSON object), "absent" (no such key) or "wrong"
\* (null, a list, a string or a number where the object should be); the
\* app group can also be "empty", the object {}.
\* cpuload is "numbers" (three numbers), "short" (fewer than three),
\* "absent", "scalar" (a number or null) or "texts" (a list of strings).
FullBody ==
    [ nextcloud |-> "dict", server |-> "dict", activeUsers |-> "dict",
      system |-> "dict", storage |-> "dict", shares |-> "dict",
      php |-> "dict", database |-> "dict", app |-> "dict",
      num_files |-> JInt(1234), cpuload |-> "numbers",
      opcache_hit_rate |-> JFloat(9950),
      mem_total |-> JInt(2048), mem_free |-> JInt(512),
      swap_total |-> JInt(1024), swap_free |-> JInt(1024),
      used_memory |-> JInt(1536), wasted_memory |-> JInt(0),
      storage_used |-> JInt(1441792), storage_free |-> JInt(1153),
      freespace |-> JInt(4096), db_size |-> JStr(JInt(2048)),
      memory_limit |-> JInt(1048576),
      start_time |-> JInt(CurrentTime - 3700),
      enabled |-> JArray(<< AppEntry(JText(IdMail), JText(Version12)),
                            AppEntry(JText(IdFiles), JText(Version300)) >>),
      installed |-> JArray(<< AppEntry(JText(IdMail), JText(Version12)),
                              AppEntry(JText(IdFiles), JText(Version300)),
                              AppEntry(JText(IdNotes), JText(Version12)) >>) ]

NoBody == [FullBody EXCEPT !.nextcloud = "absent", !.server = "absent",
                           !.activeUsers = "absent", !.app = "absent"]

\* dict.get on the group a field lives in: {} stands in for a group that
\* is absent, and so every field of it is absent.
SystemField(body, value) == IF body.system = "dict" THEN value ELSE Absent

StorageField(body, value) == IF body.storage = "dict" THEN value ELSE Absent

PhpField(body, value) == IF body.php = "dict" THEN value ELSE Absent

DatabaseField(body, value) == IF body.database = "dict" THEN value ELSE Absent

AppField(body, value) == IF body.app = "dict" THEN value ELSE Absent

\* The exceptions raised between the first subscript and the end of the
\* `updates` dictionary: KeyError for a top-level group that is absent,
\* AttributeError for .get on a group that is no object, TypeError or
\* ValueError for len() and the format specifications ',' and '.2f'.
Raises(body) ==
    \/ body.nextcloud # "dict"
    \/ body.server # "dict"
    \/ body.activeUsers # "dict"
    \/ body.system = "wrong"
    \/ body.database = "wrong"
    \/ body.php = "wrong"
    \/ body.storage = "wrong"
    \/ body.shares = "wrong"
    \/ body.system = "dict" /\ body.cpuload \in {"scalar", "texts"}
    \/ PhpField(body, body.opcache_hit_rate).t \in {"str", "null", "list"}
    \/ StorageField(body, body.num_files).t \in {"str", "null", "list"}

\* ram_total_kb, ram_free_kb, swap_total_kb, swap_free_kb
KbOf(body, value) == safe_int(Get(SystemField(body, value), JInt(0)))

ram_total(body) == KbOf(body, body.mem_total) * KB_TO_BYTES

ram_used(body) ==
    (KbOf(body, body.mem_total) - KbOf(body, body.mem_free)) * KB_TO_BYTES

swap_used(body) ==
    (KbOf(body, body.swap_total) - KbOf(body, body.swap_free)) * KB_TO_BYTES

storage_used(body) == safe_int(Get(StorageField(body, body.storage_used), JNull))

storage_free(body) == safe_int(Get(StorageField(body, body.storage_free), JNull))

StorageFallback_either_zero(body) ==
    storage_used(body) = 0 \/ storage_free(body) = 0

\* The storage texts fall back to the system's free space when both
\* storage figures are 0.
StorageFallback(body) == storage_used(body) = 0 /\ storage_free(body) = 0

storage_used_display(body) ==
    IF StorageFallback(body)
    THEN [ZeroBytes EXCEPT !.words = "0 Bytes (Data Missing)"]
    ELSE format_bytes(JInt(storage_used(body)))

storage_free_display(body) ==
    IF StorageFallback(body)
    THEN [format_bytes(JInt(safe_int(
              Get(SystemField(body, body.freespace), JNull))))
          EXCEPT !.words = "(System Freespace)"]
    ELSE format_bytes(JInt(storage_free(body)))

enabled_apps(body) == Get(AppField(body, body.enabled), JArray(<<>>))

installed_apps(body) == Get(AppField(body, body.installed), JArray(<<>>))

\* The app section has its lists: app_data is truthy (not None, not {})
\* and a dict, and 'enabled' and 'installed' are lists.
AppLists(body) ==
    /\ body.app = "dict"
    /\ enabled_apps(body).t = "array"
    /\ installed_apps(body).t = "array"

enabled_app_count(body) ==
    IF AppLists(body) THEN Number(Len(enabled_apps(body).items))
                      ELSE Words("N/A (Data Missing)")

total_app_count(body) ==
    IF AppLists(body) THEN Number(Len(installed_apps(body).items))
                      ELSE Words("N/A (Data Missing)")

enabled_app_lines_str(body) ==
    IF AppLists(body)
    THEN [text |-> Join(sorted(temp_lines(enabled_apps(body).items))),
          words |-> ""]
    ELSE [text |-> <<>>,
          words |-> "APP DATA IS MISSING FROM NEXTCLOUD API RESPONSE."]

\* start_time_ts, and uptime_seconds: the time since the start, or 0
\* without a start time in the past.
start_time_ts(body) == safe_int(Get(PhpField(body, body.start_time), JInt(0)))

uptime_seconds(body) ==
    IF start_time_ts(body) > 0 /\ CurrentTime > start_time_ts(body)
    THEN CurrentTime - start_time_ts(body) ELSE 0

\* The keys of the `updates` dictionary that hold a byte count.
ByteKeys ==
    { "ram_used_val", "ram_total_val", "swap_used_val", "opcache_used_val",
      "opcache_wasted_val", "storage_used_val", "storage_free_val",
      "db_size_val", "php_memory_limit_val" }

\* The value of one key of the `updates` dictionary, as str() shows it.
UpdateValue(key, body) ==
    CASE key = "ram_used_val" -> format_bytes(JInt(ram_used(body)))
      [] key = "ram_total_val" -> format_bytes(JInt(ram_total(body)))
      [] key = "swap_used_val" -> format_bytes(JInt(swap_used(body)))
      [] key = "opcache_used_val" ->
            format_bytes(Get(PhpField(body, body.used_memory), JInt(0)))
      [] key = "opcache_wasted_val" ->
            format_bytes(Get(PhpField(body, body.wasted_memory), JInt(0)))
      [] key = "storage_used_val" -> storage_used_display(body)
      [] key = "storage_free_val" -> storage_free_display(body)
      [] key = "db_size_val" ->
            format_bytes(JInt(safe_int(
                Get(DatabaseField(body, body.db_size), JNull))))
      [] key = "php_memory_limit_val" ->
            format_bytes(Get(PhpField(body, body.memory_limit), JInt(0)))
      [] key = "php_uptime_val" ->
            format_timedelta(JInt(uptime_seconds(body)))
      [] key = "enabled_apps_val" -> enabled_app_count(body)
      [] key = "app_count_val" -> total_app_count(body)
      [] OTHER -> Words("text")

UpdateKeys_without_db_host ==
    { "version_val", "php_uptime_val", "users_val", "files_val",
      "webserver_val", "cpunum_val",
      "active5m_val", "active1h_val", "active24h_val",
      "maintenance_val", "failed_logins_val",
      "total_shares_val", "local_shares_val", "federated_shares_val",
      "public_shares_val",
      "ram_used_val", "ram_total_val", "swap_used_val",
      "cpu1m_val", "cpu5m_val", "cpu15m_val",
      "opcache_hit_rate_val", "opcache_used_val", "opcache_wasted_val",
      "storage_used_val", "storage_free_val", "db_size_val",
      "enabled_apps_val", "app_count_val",
      "php_val", "php_memory_limit_val", "php_max_exec_val",
      "db_type_val", "db_version_val" }

\* The keys of the `updates` dictionary.
UpdateKeys ==
    { "version_val", "php_uptime_val", "users_val", "files_val",
      "webserver_val", "cpunum_val",
      "active5m_val", "active1h_val", "active24h_val",
      "maintenance_val", "failed_logins_val",
      "total_shares_val", "local_shares_val", "federated_shares_val",
      "public_shares_val",
      "ram_used_val", "ram_total_val", "swap_used_val",
      "cpu1m_val", "cpu5m_val", "cpu15m_val",
      "opcache_hit_rate_val", "opcache_used_val", "opcache_wasted_val",
      "storage_used_val", "storage_free_val", "db_size_val",
      "enabled_apps_val", "app_count_val",
      "php_val", "php_memory_limit_val", "php_max_exec_val",
      "db_type_val", "db_version_val", "db_host_val" }

\* An 'ok' envelope without the activeUsers group.
BodyNoActiveUsers == [FullBody EXCEPT !.activeUsers = "absent"]

\* The groups of the data section.
Groups ==
    { "nextcloud", "server", "activeUsers", "system", "storage", "php",
      "database", "shares", "app" }

\* The kilobyte figures of the system group and the byte figures of the
\* other groups that the payloads below carry, negative ones and the texts
\* of numbers among them.
KbValues == { Absent, JInt(0), JInt(100), JInt(200), JStr(JFloat(10250)) }

ByteValues ==
    { Absent, JNull, JInt(-1536), JFloat(-150), JInt(1152), JInt(1408),
      JStr(JInt(1048576)), JStr(JNull) }

\* Byte counts that are integers and not negative: small ones, and those
\* next to every power of 1024 up to 1024 ** 9.
ByteCounts ==
    { JInt(n) : n \in { 0, 1, 1023, 1024, 1025, 1048575, 1048576, 1048577,
                        20000000 } }
    \cup { JBig(e, o) : e \in 1..9, o \in (-MaxOffset)..MaxOffset }

\* The durations since start_time the payloads carry: none, up to a
\* minute, and around and between the minute, hour, day and year.
Durations ==
    { -5, 0, 1, 45, 59, 60, 61, 119, 120, 3599, 3600, 3700, 7200, 86399,
      86400, 90000, 90061, 31535999, 31536000, 31536060, 31626061,
      63072000, 63251940, 94608000 + 172800 + 7200 + 120 }

\* The values of 'enabled' and 'installed': no such key, lists (empty, of
\* objects, of strings and objects without keys, with an entry that is
\* neither), and values that are no list.
EnabledValues ==
    { Absent, JArray(<<>>),
      JArray(<< AppEntry(JText(IdFiles), JText(Version12)),
                AppEntry(JText(IdNotes), JText(Version300)) >>),
      JArray(<< JText(IdMail), AppEntry(Absent, Absent),
                AppEntry(JText(IdFiles), Absent) >>),
      JArray(<< AppEntry(JText(IdFiles), JText(Version12)), JInt(42) >>),
      JNull, JInt(2) }

InstalledValues ==
    { Absent, JArray(<<>>),
      JArray(<< JText(IdMail), JText(IdFiles), JText(IdNotes) >>),
      JStr(JNull) }

\* The 'ok' payloads one fetch cycle is checked with: the full one, one
\* for every group left out or of the wrong type, and the full one with
\* other fields.
Bodies ==
    {FullBody}
    \cup { [FullBody EXCEPT ![g] = shape] :
              g \in Groups, shape \in {"absent", "wrong"} }
    \cup { [FullBody EXCEPT !.system = "absent", !.php = "wrong"] }
    \cup { [FullBody EXCEPT !.cpuload = c] :
              c \in {"short", "absent", "scalar", "texts"} }
    \cup { [FullBody EXCEPT !.num_files = v] :
              v \in {Absent, JFloat(150), JStr(JInt(12)), JNull} }
    \cup { [FullBody EXCEPT !.opcache_hit_rate = v] :
              v \in {Absent, JInt(99), JStr(JFloat(9950))} }
    \cup { [FullBody EXCEPT !.mem_total = t, !.mem_free = f] :
              t \in KbValues, f \in KbValues }
    \cup { [FullBody EXCEPT !.swap_total = t, !.swap_free = f] :
              t \in KbValues, f \in KbValues }
    \cup { [FullBody EXCEPT !.used_memory = v, !.wasted_memory = v] :
              v \in ByteValues }
    \cup { [FullBody EXCEPT !.storage_used = u, !.storage_free = f] :
              u \in {Absent, JInt(-1536), JInt(0), JInt(1536), JFloat(50)},
              f \in {Absent, JInt(-1), JInt(0), JInt(2048), JStr(JInt(0))} }
    \cup { [FullBody EXCEPT !.storage = "absent", !.freespace = v] :
              v \in {Absent, JInt(-4096), JInt(4096)} }
    \cup { [FullBody EXCEPT !.db_size = v, !.memory_limit = v] :
              v \in ByteValues }
    \cup { [FullBody EXCEPT !.used_memory = v] : v \in ByteCounts }
    \cup { [FullBody EXCEPT !.start_time = JInt(CurrentTime - d)] :
              d \in Durations }
    \cup { [FullBody EXCEPT !.app = "empty"] }
    \cup { [FullBody EXCEPT !.enabled = e, !.installed = i] :
              e \in EnabledValues, i \in InstalledValues }
    \cup { [FullBody EXCEPT !.start_time = v] :
              v \in { Absent, JNull, JInt(0), JStr(JInt(CurrentTime - 45)) } }

----------------------------------------------------------------------------
(* The metric labels created by add_metric_pair *)

MetricKeys ==
    { "version_val", "php_uptime_val", "users_val", "files_val",
      "webserver_val", "cpunum_val",
      "active5m_val", "active1h_val", "active24h_val",
      "failed_logins_val", "maintenance_val",
      "total_shares_val", "local_shares_val", "federated_shares_val",
      "public_shares_val",
      "ram_used_val", "ram_total_val", "swap_used_val",
      "cpu1m_val", "cpu5m_val", "cpu15m_val",
      "opcache_hit_rate_val", "opcache_used_val", "opcache_wasted_val",
      "storage_used_val", "storage_free_val", "db_size_val",
      "enabled_apps_val", "app_count_val",
      "php_val", "php_memory_limit_val", "php_max_exec_val",
      "db_type_val", "db_version_val", "db_host_val" }

NA == <<"N/A">>

AppsLoading == <<"Apps list loading...">>

RawLoading == <<"Fetching raw data...">>

\* The text a label shows for one key of one payload.
\* The value of every key for every payload of the model: UpdateValue,
\* worked out once.
UpdateTexts ==
    [body \in Bodies \cup {NoBody, BodyNoActiveUsers} |->
        [key \in UpdateKeys \cup MetricKeys |-> UpdateValue(key, body)]]

LabelText(key, data) ==
    <<"value", key, data.server, data.fetch, UpdateTexts[data.body][key]>>

\* The sorted lines of the enabled apps, or the words shown without them.
AppListOf(data) ==
    <<"apps", data.server, data.fetch, enabled_app_lines_str(data.body)>>

\* json.dumps(data, indent=2)
RawJson(data) == <<"json", data.server, data.fetch, data.body>>

RawError(msg) ==
    <<"ERROR: Could not fetch data. Check your URL/Token.", msg>>

NoData == [server |-> "", fetch |-> 0, body |-> NoBody]

----------------------------------------------------------------------------
(* Status bar: update_status(message, color) *)

Status(message, color) == [message |-> message, color |-> color]

update_status(message, color) == status_bar' = Status(message, color)


----------------------------------------------------------------------------
(* The server's answers to one GET request of fetch_metrics *)

\* body: the data section of an envelope whose status is 'ok'.
Resp(kind, status, message, body) ==
    [kind |-> kind, status |-> status, message |-> message, body |-> body]

\* <<>> as message: the envelope's meta section carries no 'message'.
AllResponses ==
    { Resp("http_error", "", <<>>, NoBody),
      Resp("connection_error", "", <<>>, NoBody),
      Resp("read_timeout", "", <<>>, NoBody),
      Resp("invalid_json", "", <<>>, NoBody),
      Resp("json", "failure", <<"quota exceeded">>, NoBody),
      Resp("json", "failure", <<>>, NoBody),
      Resp("json", "ok", <<>>, FullBody),
      Resp("json", "ok", <<>>, BodyNoActiveUsers) }

\* The answers the servers of the polling model give: a transport failure,
\* an HTTP error status, an envelope that is not 'ok', and an 'ok' envelope
\* with a full data section or with one that lacks a group.
Responses ==
    { Resp("read_timeout", "", <<>>, NoBody),
      Resp("http_error", "", <<>>, NoBody),
      Resp("json", "failure", <<>>, NoBody),
      Resp("json", "ok", <<>>, FullBody),
      Resp("json", "ok", <<>>, BodyNoActiveUsers) }

\* The answers of one fetch cycle: every failure, and every 'ok' payload.
CycleResponses ==
    { resp \in AllResponses : ~(resp.kind = "json" /\ resp.status = "ok") }
    \cup { Resp("json", "ok", <<>>, body) : body \in Bodies }

\* What fetch_metrics returns (ok, data) or raises (~ok, message).
Returned(data) == [ok |-> TRUE, data |-> data, message |-> <<>>]

Raised(message) == [ok |-> FALSE, data |-> NoData, message |-> message]

\* fetch_metrics(nc_url, nc_token): one requests.get with a 15 second
\* timeout, then the classification of the answer.  The exception raised
\* for a non-'ok' envelope is raised inside the try block and so is caught
\* and wrapped by the final `except Exception`.
fetch_metrics(url, token, fetch, resp) ==
    CASE resp.kind = "http_error" ->
            Raised(<<"HTTP Error: ", resp.kind, ". Check URL/Token.">>)
      [] resp.kind = "connection_error" ->
            Raised(<<"Connection Error: ", resp.kind, ". Server unreachable.">>)
      [] resp.kind = "read_timeout" ->
            Raised(<<"Request timed out after 15 seconds.">>)
      [] resp.kind = "invalid_json" ->
            Raised(<<"An unexpected error occurred: ", resp.kind>>)
      [] resp.kind = "json" /\ resp.status # "ok" ->
            Raised(<<"An unexpected error occurred: ", "API Status Error: ",
                     IF resp.message = <<>> THEN "Unknown error"
                                            ELSE resp.message[1]>>)
      [] OTHER ->
            Returned([server |-> url, fetch |-> fetch, body |-> resp.body])

----------------------------------------------------------------------------
(* NextcloudWorker and the worker signals *)

\* NextcloudWorker(nc_url, nc_token, signals) as start_fetch creates it,
\* with the history of what it has done: network attempts made, signals
\* emitted, handler runs its signals caused.
NextcloudWorker(url, token) ==
    [nc_url |-> url, nc_token |-> token, state |-> "queued",
     attempts |-> 0, emitted |-> 0, handled |-> 0]

Signal(name, worker, data, message) ==
    [signal |-> name, worker |-> worker, data |-> data, message |-> message]

\* The signal run() emits for the result of fetch_metrics.
EmittedSignal(i, result) ==
    IF result.ok THEN Signal("data_fetched", i, result.data, <<>>)
                 ELSE Signal("error", i, NoData, result.message)

Outstanding == { i \in 1..Len(workers) : workers[i].state = "queued" }

Op(op, worker, req, cfg) ==
    [op |-> op, worker |-> worker, req |-> req, cfg |-> cfg]

\* The request fetch_metrics sends: the URL it queries and the token of
\* its NC-Token header.
Request(url, token) == [NoConfig EXCEPT !.url = url, !.token = token]

\* A run() that reads the URL and the token of the session when it runs,
\* not those it was created with.
NextcloudWorker_run_session_target(i, resp) ==
    /\ phase = "running"
    /\ i \in Outstanding
    /\ LET w == workers[i]
           result == fetch_metrics(nc_url, nc_token, i, resp)
       IN /\ workers' = [workers EXCEPT ![i] =
                            [w EXCEPT !.state = "finished",
                                      !.attempts = w.attempts + 1,
                                      !.emitted = w.emitted + 1]]
          /\ signal_queue' = Append(signal_queue, EmittedSignal(i, result))
    /\ lastOp' = Op("run", i, resp, Request(nc_url, nc_token))
    /\ UNCHANGED <<script_dir, phase, exit_code, server_configs,
                   current_config, nc_url,
                   nc_token, refresh_interval_ms, refresh_timer,
                   metric_labels, app_list_text, raw_data_text, status_bar,
                   modal>>

\* A run() whose emit of data_fetched raises inside the try block: the
\* except clause then emits error as well.
NextcloudWorker_run_both(i, resp) ==
    /\ phase = "running"
    /\ i \in Outstanding
    /\ LET w == workers[i]
           result == fetch_metrics(w.nc_url, w.nc_token, i, resp)
       IN IF result.ok
          THEN /\ workers' = [workers EXCEPT ![i] =
                                 [w EXCEPT !.state = "finished",
                                           !.attempts = w.attempts + 1,
                                           !.emitted = w.emitted + 2]]
               /\ signal_queue' = signal_queue \o
                     << EmittedSignal(i, result),
                        Signal("error", i, NoData, <<"emit failed">>) >>
          ELSE /\ workers' = [workers EXCEPT ![i] =
                                 [w EXCEPT !.state = "finished",
                                           !.attempts = w.attempts + 1,
                                           !.emitted = w.emitted + 1]]
               /\ signal_queue' = Append(signal_queue, EmittedSignal(i, result))
    /\ lastOp' = Op("run", i, resp,
                    Request(workers[i].nc_url, workers[i].nc_token))
    /\ UNCHANGED <<script_dir, phase, exit_code, server_configs,
                   current_config, nc_url,
                   nc_token, refresh_interval_ms, refresh_timer,
                   metric_labels, app_list_text, raw_data_text, status_bar,
                   modal>>

\* NextcloudWorker.run on a pool thread: one fetch_metrics call, then one
\* of the two signals, queued for the GUI thread.
NextcloudWorker_run(i, resp) ==
    /\ phase = "running"
    /\ i \in Outstanding
    /\ LET w == workers[i]
           result == fetch_metrics(w.nc_url, w.nc_token, i, resp)
       IN /\ workers' = [workers EXCEPT ![i] =
                            [w EXCEPT !.state = "finished",
                                      !.attempts = w.attempts + 1,
                                      !.emitted = w.emitted + 1]]
          /\ signal_queue' = Append(signal_queue, EmittedSignal(i, result))
    /\ lastOp' = Op("run", i, resp,
                    Request(workers[i].nc_url, workers[i].nc_token))
    /\ UNCHANGED <<script_dir, phase, exit_code, server_configs,
                   current_config, nc_url,
                   nc_token, refresh_interval_ms, refresh_timer,
                   metric_labels, app_list_text, raw_data_text, status_bar,
                   modal>>

----------------------------------------------------------------------------
(* QTimer *)

StoppedTimer == [active |-> FALSE, interval |-> 0, remaining |-> 0]

\* refresh_timer.stop(); refresh_timer.start(ms)
RestartedTimer(ms) == [active |-> TRUE, interval |-> ms, remaining |-> ms]

----------------------------------------------------------------------------
(* start_fetch *)

CanDispatch == Len(workers) < MaxFetches

\* A start_fetch that waits until no fetch is outstanding.
start_fetch_blocking ==
    /\ CanDispatch
    /\ Outstanding = {}
    /\ update_status(<<"Fetching new data... Next refresh in ",
                       refresh_interval_ms'>>, "blue")
    /\ workers' = Append(workers, NextcloudWorker(nc_url', nc_token'))

\* start_fetch(), called at the end of a handler: reads the session as the
\* handler leaves it (the primed variables).
start_fetch ==
    /\ CanDispatch
    /\ update_status(<<"Fetching new data... Next refresh in ",
                       refresh_interval_ms'>>, "blue")
    /\ workers' = Append(workers, NextcloudWorker(nc_url', nc_token'))


----------------------------------------------------------------------------
(* Modal dialogs: frames of the stack of nested event loops *)

\* RefreshIntervalDialog: current_interval_ms and the spin box's value;
\* ServerSelectionDialog: value is the list's current row;
\* QMessageBox.critical of update_gui_metrics: no fields used.
Frame(kind, current_interval_ms, value) ==
    [kind |-> kind, current_interval_ms |-> current_interval_ms,
     value |-> value]

Top == modal[Len(modal)]

Pop == SubSeq(modal, 1, Len(modal) - 1)

TopIs(kind) == Len(modal) > 0 /\ Top.kind = kind

\* No modal dialog blocks the main window's button and menu.
MainWindowEnabled == phase = "running" /\ modal = <<>>

InRange(seconds) == SPINBOX_MIN_S <= seconds /\ seconds <= SPINBOX_MAX_S

\* interval_spinbox.setValue(v) after setRange(10, 3600): the value is
\* bounded to the range.
SpinBoxSetValue(v) ==
    IF v < SPINBOX_MIN_S THEN SPINBOX_MIN_S
    ELSE IF v > SPINBOX_MAX_S THEN SPINBOX_MAX_S
    ELSE v

\* A spin box without a range: whatever is entered is its value.
SpinBoxEntry_unbounded(value, seconds) == seconds

\* A spin box that moves an entry outside the range to the nearest end.
SpinBoxEntry_clamping(value, seconds) == SpinBoxSetValue(seconds)

\* The spin box's value after the user entered `seconds`: the range set by
\* setRange(10, 3600) admits no value outside it, an entry outside it is
\* not taken and the spin box keeps the value it had.
SpinBoxEntry(value, seconds) ==
    IF InRange(seconds) THEN seconds ELSE value

\* RefreshIntervalDialog.accept_selection / get_new_interval
NewIntervalMs(spin_value) == spin_value * MS_PER_SECOND

\* The row ServerSelectionDialog preselects: the last config whose name is
\* the current config's name, else row 0 (rows are 1-based here).
InitialRow(configs, current) ==
    LET same == { i \in 1..Len(configs) : configs[i].name = current.name }
    IN  IF same = {} THEN 1
        ELSE CHOOSE i \in same : \A j \in same : j <= i

----------------------------------------------------------------------------
(* Handlers of NextcloudMonitorApp *)

\* An apply_new_config that starts the fetch before it stores the new URL
\* and token: the worker is created for the configuration being left.
apply_new_config_fetch_first(c) ==
    /\ CanDispatch
    /\ workers' = Append(workers, NextcloudWorker(nc_url, nc_token))
    /\ current_config' = c
    /\ nc_url' = c.url
    /\ nc_token' = c.token
    /\ metric_labels' = [k \in DOMAIN metric_labels |-> NA]
    /\ app_list_text' = AppsLoading
    /\ raw_data_text' = RawLoading
    /\ refresh_timer' = RestartedTimer(refresh_interval_ms')
    /\ update_status(<<"Monitoring server: ", c.url>>, "blue")

\* apply_new_config(config_object); the status set before the timer is
\* restarted is replaced by that of start_fetch.
apply_new_config(c) ==
    /\ current_config' = c
    /\ nc_url' = c.url
    /\ nc_token' = c.token
    /\ metric_labels' = [k \in DOMAIN metric_labels |-> NA]
    /\ app_list_text' = AppsLoading
    /\ raw_data_text' = RawLoading
    /\ refresh_timer' = RestartedTimer(refresh_interval_ms')
    /\ start_fetch

\* Every file of the listing has been looked at.
ScanDone == script_dir.scanned = Len(script_dir.files)

\* What one turn of the loop of find_and_load_configs leaves in config_list.
LoadFile(config_list, file) ==
    IF CONFIG_FILE_PATTERN(file.name) /\ read_config_file(file).ok
    THEN Append(config_list, ConfigOf(file, read_config_file(file)))
    ELSE config_list

ScanFile_aborting ==
    /\ phase = "boot"
    /\ ~ScanDone
    /\ LET file == script_dir.files[script_dir.scanned + 1]
           kept == LoadFile(server_configs, file)
       IN  /\ server_configs' = kept
           /\ script_dir' =
                [script_dir EXCEPT !.scanned =
                    IF CONFIG_FILE_PATTERN(file.name) /\ kept = server_configs
                    THEN Len(script_dir.files) ELSE @ + 1]
    /\ lastOp' = Op("scan", 0, 0, NoConfig)
    /\ UNCHANGED <<phase, exit_code, current_config, nc_url, nc_token,
                   refresh_interval_ms, refresh_timer, metric_labels,
                   app_list_text, raw_data_text, status_bar, workers,
                   signal_queue, modal>>

\* find_and_load_configs(script_dir), one file of os.listdir per step: a
\* file whose name matches is read and appended, a file that cannot be
\* parsed is skipped with a warning and the loop goes on.
ScanFile ==
    /\ phase = "boot"
    /\ ~ScanDone
    /\ server_configs' =
          LoadFile(server_configs, script_dir.files[script_dir.scanned + 1])
    /\ script_dir' = [script_dir EXCEPT !.scanned = @ + 1]
    /\ lastOp' = Op("scan", 0, 0, NoConfig)
    /\ UNCHANGED <<phase, exit_code, current_config, nc_url, nc_token,
                   refresh_interval_ms, refresh_timer, metric_labels,
                   app_list_text, raw_data_text, status_bar, workers,
                   signal_queue, modal>>

Main_last_config ==
    /\ phase = "boot"
    /\ ScanDone
    /\ IF server_configs = <<>>
       THEN /\ phase' = "exited"
            /\ exit_code' = 1
            /\ lastOp' = Op("exit", 0, 0, NoConfig)
            /\ UNCHANGED <<current_config, nc_url, nc_token,
                           refresh_interval_ms, refresh_timer, metric_labels,
                           app_list_text, raw_data_text, status_bar, workers>>
       ELSE /\ phase' = "running"
            /\ exit_code' = exit_code
            /\ refresh_interval_ms' = DEFAULT_REFRESH_INTERVAL_MS
            /\ apply_new_config(server_configs[Len(server_configs)])
            /\ lastOp' = Op("init", Len(workers'), 0,
                            server_configs[Len(server_configs)])
    /\ UNCHANGED <<script_dir, server_configs, signal_queue, modal>>

\* __main__ once the configurations are loaded: sys.exit(1) without
\* configurations, else the construction of the window with the first
\* configuration (NextcloudMonitorApp.__init__).
Main ==
    /\ phase = "boot"
    /\ ScanDone
    /\ IF server_configs = <<>>
       THEN /\ phase' = "exited"
            /\ exit_code' = 1
            /\ lastOp' = Op("exit", 0, 0, NoConfig)
            /\ UNCHANGED <<current_config, nc_url, nc_token,
                           refresh_interval_ms, refresh_timer, metric_labels,
                           app_list_text, raw_data_text, status_bar, workers>>
       ELSE /\ phase' = "running"
            /\ exit_code' = exit_code
            /\ refresh_interval_ms' = DEFAULT_REFRESH_INTERVAL_MS
            /\ apply_new_config(server_configs[1])
            /\ lastOp' = Op("init", Len(workers'), 0, server_configs[1])
    /\ UNCHANGED <<script_dir, server_configs, signal_queue, modal>>

\* Time passes while the timer runs: part of a period, or all that is left
\* of it.
AdvanceSteps ==
    {refresh_timer.remaining} \cup
    (IF /\ refresh_timer.remaining = refresh_timer.interval
        /\ PartWayMs < refresh_timer.remaining
     THEN {PartWayMs} ELSE {})

Advance(d) ==
    /\ phase = "running"
    /\ refresh_timer.active
    /\ refresh_timer.remaining > 0
    /\ d \in AdvanceSteps
    /\ refresh_timer' =
          [refresh_timer EXCEPT !.remaining = refresh_timer.remaining - d]
    /\ lastOp' = Op("time", 0, 0, NoConfig)
    /\ UNCHANGED <<script_dir, phase, exit_code, server_configs,
                   current_config, nc_url,
                   nc_token, refresh_interval_ms, metric_labels,
                   app_list_text, raw_data_text, status_bar, workers,
                   signal_queue, modal>>

\* refresh_timer.timeout -> start_fetch; the timer is recurring and starts
\* its next period.
Tick ==
    /\ phase = "running"
    /\ refresh_timer.active
    /\ refresh_timer.remaining = 0
    /\ refresh_timer' =
          [refresh_timer EXCEPT !.remaining = refresh_timer.interval]
    /\ UNCHANGED <<nc_url, nc_token, refresh_interval_ms>>
    /\ start_fetch
    /\ lastOp' = Op("tick", Len(workers'), 0, NoConfig)
    /\ UNCHANGED <<script_dir, phase, exit_code, server_configs, current_config,
                   metric_labels, app_list_text, raw_data_text,
                   signal_queue, modal>>

\* A Manual Refresh that also restarts the timer's period.
ManualRefresh_restarting_timer ==
    /\ MainWindowEnabled
    /\ UNCHANGED <<nc_url, nc_token, refresh_interval_ms>>
    /\ refresh_timer' = RestartedTimer(refresh_interval_ms)
    /\ start_fetch
    /\ lastOp' = Op("manual_refresh", Len(workers'), 0, NoConfig)
    /\ UNCHANGED <<script_dir, phase, exit_code, server_configs, current_config,
                   metric_labels, app_list_text,
                   raw_data_text, signal_queue, modal>>

\* refresh_button.clicked -> start_fetch
ManualRefresh ==
    /\ MainWindowEnabled
    /\ UNCHANGED <<nc_url, nc_token, refresh_interval_ms>>
    /\ start_fetch
    /\ lastOp' = Op("manual_refresh", Len(workers'), 0, NoConfig)
    /\ UNCHANGED <<script_dir, phase, exit_code, server_configs, current_config,
                   refresh_timer, metric_labels, app_list_text,
                   raw_data_text, signal_queue, modal>>


\* set_refresh_interval_dialog, up to dialog.exec():
\* RefreshIntervalDialog.__init__
OpenIntervalDialog ==
    /\ MainWindowEnabled
    /\ modal' = Append(modal,
                  Frame("interval", refresh_interval_ms,
                        SpinBoxSetValue(refresh_interval_ms \div MS_PER_SECOND)))
    /\ lastOp' = Op("open_interval", 0, 0, NoConfig)
    /\ UNCHANGED <<script_dir, phase, exit_code, server_configs,
                   current_config, nc_url,
                   nc_token, refresh_interval_ms, refresh_timer,
                   metric_labels, app_list_text, raw_data_text, status_bar,
                   workers, signal_queue>>

\* A set_refresh_interval_dialog without the comparison with the current
\* interval: every accepted value restarts the timer and fetches.
IntervalAccept_always(seconds) ==
    /\ phase = "running"
    /\ TopIs("interval")
    /\ refresh_interval_ms' = NewIntervalMs(SpinBoxSetValue(seconds))
    /\ refresh_timer' = RestartedTimer(refresh_interval_ms')
    /\ UNCHANGED <<nc_url, nc_token>>
    /\ start_fetch
    /\ modal' = Pop
    /\ lastOp' = Op("interval_accept", Len(workers'), seconds, NoConfig)
    /\ UNCHANGED <<script_dir, phase, exit_code, server_configs, current_config,
                   metric_labels, app_list_text, raw_data_text,
                   signal_queue>>

\* A set_refresh_interval_dialog that stores the new interval and leaves
\* the timer at the period it has.
IntervalAccept_keeping_timer(seconds) ==
    /\ phase = "running"
    /\ TopIs("interval")
    /\ LET new_interval_ms == NewIntervalMs(SpinBoxEntry(Top.value, seconds))
       IN IF new_interval_ms # refresh_interval_ms
          THEN /\ refresh_interval_ms' = new_interval_ms
               /\ UNCHANGED <<refresh_timer, nc_url, nc_token>>
               /\ start_fetch
          ELSE UNCHANGED <<refresh_interval_ms, refresh_timer, nc_url,
                           nc_token, status_bar, workers>>
    /\ modal' = Pop
    /\ lastOp' = Op("interval_accept", Len(workers'), seconds, NoConfig)
    /\ UNCHANGED <<script_dir, phase, exit_code, server_configs, current_config,
                   metric_labels, app_list_text, raw_data_text,
                   signal_queue>>

\* The user enters `seconds` and presses Apply: accept_selection, then the
\* rest of set_refresh_interval_dialog.
IntervalAccept(seconds) ==
    /\ phase = "running"
    /\ TopIs("interval")
    /\ LET new_interval_ms == NewIntervalMs(SpinBoxEntry(Top.value, seconds))
       IN IF new_interval_ms # refresh_interval_ms
          THEN /\ refresh_interval_ms' = new_interval_ms
               /\ refresh_timer' = RestartedTimer(new_interval_ms)
               /\ UNCHANGED <<nc_url, nc_token>>
               /\ start_fetch
          ELSE UNCHANGED <<refresh_interval_ms, refresh_timer, nc_url,
                           nc_token, status_bar, workers>>
    /\ modal' = Pop
    /\ lastOp' = Op("interval_accept", Len(workers'), seconds, NoConfig)
    /\ UNCHANGED <<script_dir, phase, exit_code, server_configs, current_config,
                   metric_labels, app_list_text, raw_data_text,
                   signal_queue>>

\* Cancel in RefreshIntervalDialog
IntervalReject ==
    /\ phase = "running"
    /\ TopIs("interval")
    /\ modal' = Pop
    /\ lastOp' = Op("interval_reject", 0, 0, NoConfig)
    /\ UNCHANGED <<script_dir, phase, exit_code, server_configs,
                   current_config, nc_url,
                   nc_token, refresh_interval_ms, refresh_timer,
                   metric_labels, app_list_text, raw_data_text, status_bar,
                   workers, signal_queue>>

\* select_new_config_dialog, up to dialog.exec():
\* ServerSelectionDialog.__init__
OpenServerDialog ==
    /\ MainWindowEnabled
    /\ modal' = Append(modal,
                  Frame("server", 0, InitialRow(server_configs, current_config)))
    /\ lastOp' = Op("open_server", 0, 0, NoConfig)
    /\ UNCHANGED <<script_dir, phase, exit_code, server_configs,
                   current_config, nc_url,
                   nc_token, refresh_interval_ms, refresh_timer,
                   metric_labels, app_list_text, raw_data_text, status_bar,
                   workers, signal_queue>>

\* The user selects `row` and presses Switch Server: accept_selection, then
\* the rest of select_new_config_dialog.
ServerAccept(row) ==
    /\ phase = "running"
    /\ TopIs("server")
    /\ row \in 1..Len(server_configs)
    /\ UNCHANGED refresh_interval_ms
    /\ apply_new_config(server_configs[row])
    /\ modal' = Pop
    /\ lastOp' = Op("apply_new_config", Len(workers'), 0, server_configs[row])
    /\ UNCHANGED <<script_dir, phase, exit_code, server_configs, signal_queue>>

\* Cancel in ServerSelectionDialog
ServerReject ==
    /\ phase = "running"
    /\ TopIs("server")
    /\ modal' = Pop
    /\ lastOp' = Op("server_reject", 0, 0, NoConfig)
    /\ UNCHANGED <<script_dir, phase, exit_code, server_configs,
                   current_config, nc_url,
                   nc_token, refresh_interval_ms, refresh_timer,
                   metric_labels, app_list_text, raw_data_text, status_bar,
                   workers, signal_queue>>

\* The next queued worker signal, and the worker's record once its handler
\* has been entered.
NextSignal == Head(signal_queue)

Handled(i) ==
    [workers EXCEPT ![i] = [workers[i] EXCEPT !.handled = workers[i].handled + 1]]

\* A handle_fetch_error that also blanks the labels.
handle_fetch_error_blanking(error_message) ==
    /\ raw_data_text' = RawError(error_message)
    /\ update_status(<<"Error: ", error_message>>, "red")
    /\ metric_labels' = [k \in MetricKeys |-> NA]
    /\ UNCHANGED <<app_list_text, modal, current_config, nc_url,
                   nc_token, refresh_interval_ms, refresh_timer>>

\* A handle_fetch_error that gives up polling: it stops the timer.
handle_fetch_error_stopping(error_message) ==
    /\ raw_data_text' = RawError(error_message)
    /\ update_status(<<"Error: ", error_message>>, "red")
    /\ refresh_timer' = StoppedTimer
    /\ UNCHANGED <<metric_labels, app_list_text, modal, current_config,
                   nc_url, nc_token, refresh_interval_ms>>

\* handle_fetch_error(error_message)
handle_fetch_error(error_message) ==
    /\ raw_data_text' = RawError(error_message)
    /\ update_status(<<"Error: ", error_message>>, "red")
    /\ UNCHANGED <<metric_labels, app_list_text, modal, current_config,
                   nc_url, nc_token, refresh_interval_ms, refresh_timer>>

\* update_gui_metrics(data): the raw text first; then the extraction and
\* formatting of the payload, which raises on a malformed payload before
\* any label is written and ends in the QMessageBox of the except clause.
update_gui_metrics(data) ==
    /\ raw_data_text' = RawJson(data)
    /\ IF ~Raises(data.body)
       THEN /\ metric_labels' =
                  [k \in DOMAIN metric_labels |->
                      IF k \in UpdateKeys THEN LabelText(k, data)
                                          ELSE metric_labels[k]]
            /\ app_list_text' = AppListOf(data)
            /\ update_status(<<"Last updated. Next check in ",
                               refresh_interval_ms,
                               refresh_interval_ms \div MS_PER_SECOND>>, "green")
            /\ UNCHANGED modal
       ELSE /\ modal' = Append(modal, Frame("msgbox", 0, 0))
            /\ UNCHANGED <<metric_labels, app_list_text, status_bar>>
    /\ UNCHANGED <<current_config, nc_url, nc_token, refresh_interval_ms,
                   refresh_timer>>

\* The GUI thread takes the next queued signal: error -> handle_fetch_error
DeliverError ==
    /\ phase = "running"
    /\ signal_queue # <<>>
    /\ NextSignal.signal = "error"
    /\ handle_fetch_error(NextSignal.message)
    /\ workers' = Handled(NextSignal.worker)
    /\ signal_queue' = Tail(signal_queue)
    /\ lastOp' = Op("handle_fetch_error", NextSignal.worker, 0, NoConfig)
    /\ UNCHANGED <<script_dir, phase, exit_code, server_configs>>

\* The GUI thread takes the next queued signal:
\* data_fetched -> update_gui_metrics
DeliverData ==
    /\ phase = "running"
    /\ signal_queue # <<>>
    /\ NextSignal.signal = "data_fetched"
    /\ update_gui_metrics(NextSignal.data)
    /\ workers' = Handled(NextSignal.worker)
    /\ signal_queue' = Tail(signal_queue)
    /\ lastOp' = Op("update_gui_metrics", NextSignal.worker, 0, NoConfig)
    /\ UNCHANGED <<script_dir, phase, exit_code, server_configs>>

\* The user closes the QMessageBox of update_gui_metrics' except clause;
\* the handler ends with update_status.
CloseMessageBox ==
    /\ phase = "running"
    /\ TopIs("msgbox")
    /\ modal' = Pop
    /\ update_status(<<"Error processing data">>, "red")
    /\ lastOp' = Op("close_msgbox", 0, 0, NoConfig)
    /\ UNCHANGED <<script_dir, phase, exit_code, server_configs,
                   current_config, nc_url,
                   nc_token, refresh_interval_ms, refresh_timer,
                   metric_labels, app_list_text, raw_data_text, workers,
                   signal_queue>>

----------------------------------------------------------------------------
(* The specification *)

Init ==
    /\ phase = "boot"
    /\ exit_code = -1
    /\ script_dir \in DiscoveredLists
    /\ server_configs = <<>>
    /\ current_config = NoConfig
    /\ nc_url = ""
    /\ nc_token = ""
    /\ refresh_interval_ms = 0
    /\ refresh_timer = StoppedTimer
    /\ metric_labels = [k \in MetricKeys |-> NA]
    /\ app_list_text = AppsLoading
    /\ raw_data_text = RawLoading
    /\ status_bar = Status(<<"Initializing monitor...">>, "black")
    /\ workers = <<>>
    /\ signal_queue = <<>>
    /\ modal = <<>>
    /\ lastOp = Op("none", 0, 0, NoConfig)

Next ==
    \/ ScanFile
    \/ Main
    \/ \E d \in AdvanceSteps : Advance(d)
    \/ Tick
    \/ ManualRefresh
    \/ OpenIntervalDialog
    \/ \E seconds \in RequestedSeconds : IntervalAccept(seconds)
    \/ IntervalReject
    \/ OpenServerDialog
    \/ \E row \in 1..Len(server_configs) : ServerAccept(row)
    \/ ServerReject
    \/ \E i \in 1..MaxFetches : \E resp \in Responses : NextcloudWorker_run(i, resp)
    \/ DeliverError
    \/ DeliverData
    \/ CloseMessageBox

Spec == Init /\ [][Next]_vars

\* The thread pool runs every worker it was given, requests.get returns or
\* raises within its timeout, and the GUI thread's event loop (also the
\* nested one of a modal dialog) handles every queued signal.
FairSpec ==
    /\ Spec
    /\ \A i \in 1..MaxFetches :
          WF_vars(\E resp \in Responses : NextcloudWorker_run(i, resp))
    /\ WF_vars(DeliverError)
    /\ WF_vars(DeliverData)


----------------------------------------------------------------------------
(* One fetch cycle: the start of the program in a directory with one good
   file, the first worker's request with every answer and every payload,
   and the handling of its signal *)

InitCycle ==
    /\ phase = "boot"
    /\ exit_code = -1
    /\ script_dir = Listing(<<FileA>>)
    /\ server_configs = <<>>
    /\ current_config = NoConfig
    /\ nc_url = ""
    /\ nc_token = ""
    /\ refresh_interval_ms = 0
    /\ refresh_timer = StoppedTimer
    /\ metric_labels = [k \in MetricKeys |-> NA]
    /\ app_list_text = AppsLoading
    /\ raw_data_text = RawLoading
    /\ status_bar = Status(<<"Initializing monitor...">>, "black")
    /\ workers = <<>>
    /\ signal_queue = <<>>
    /\ modal = <<>>
    /\ lastOp = Op("none", 0, 0, NoConfig)

NextCycle ==
    \/ ScanFile
    \/ Main
    \/ \E resp \in CycleResponses : NextcloudWorker_run(1, resp)
    \/ DeliverError
    \/ DeliverData
    \/ CloseMessageBox

SpecCycle == InitCycle /\ [][NextCycle]_vars

----------------------------------------------------------------------------
(* Start of the program in any directory: the scan of the listing, then
   __main__ *)

\* os.listdir: the files of a directory, in any order, each name once.
Listings ==
    UNION { { files \in [1..n -> DirFiles] :
                 \A i, j \in 1..n : files[i] = files[j] => i = j } :
            n \in 0..MaxFiles }

InitDiscover ==
    /\ phase = "boot"
    /\ exit_code = -1
    /\ script_dir \in { Listing(files) : files \in Listings }
    /\ server_configs = <<>>
    /\ current_config = NoConfig
    /\ nc_url = ""
    /\ nc_token = ""
    /\ refresh_interval_ms = 0
    /\ refresh_timer = StoppedTimer
    /\ metric_labels = [k \in MetricKeys |-> NA]
    /\ app_list_text = AppsLoading
    /\ raw_data_text = RawLoading
    /\ status_bar = Status(<<"Initializing monitor...">>, "black")
    /\ workers = <<>>
    /\ signal_queue = <<>>
    /\ modal = <<>>
    /\ lastOp = Op("none", 0, 0, NoConfig)

NextDiscover ==
    \/ ScanFile
    \/ Main

SpecDiscover == InitDiscover /\ [][NextDiscover]_vars

----------------------------------------------------------------------------
(* Shorthands of the properties *)

Running == phase = "running"

\* The step just taken ran handler `op`.
Ran(op) == lastOp'.op = op

\* The step appended exactly one worker, queued for url and token, and
\* changed no other worker.
DispatchedOne(url, token) ==
    /\ Len(workers') = Len(workers) + 1
    /\ SubSeq(workers', 1, Len(workers)) = workers
    /\ workers'[Len(workers')] = NextcloudWorker(url, token)

ShowsPayload(text) == text # NA

SnapshotShown == \E k \in MetricKeys : ShowsPayload(metric_labels[k])

----------------------------------------------------------------------------
(* C1-C5 *)

\* C1: at most one fetch is outstanding at any time: the number of workers
\* dispatched and not yet completed never exceeds one (a trigger that
\* arrives while a fetch is outstanding dispatches no worker).
C1_AtMostOneOutstanding == Cardinality(Outstanding) <= 1

\* C2: whatever metric values, app list and raw payload the display shows
\* come from a fetch dispatched for the active configuration.
C2_DisplayFromActiveConfig ==
    Running =>
      /\ \A k \in MetricKeys :
            metric_labels[k] = NA \/ metric_labels[k][3] = nc_url
      /\ app_list_text = AppsLoading \/ app_list_text[2] = nc_url
      /\ raw_data_text[1] = "json" => raw_data_text[2] = nc_url

\* C3: the failure of a fetch dispatched for a configuration that is no
\* longer the active one produces no error notification: the status bar
\* and the diagnostic text stay as they were.
C3_StaleFailureSilent ==
    [][ (Ran("handle_fetch_error")
          /\ workers[lastOp'.worker].nc_url # nc_url)
        => (status_bar' = status_bar /\ raw_data_text' = raw_data_text) ]_vars

\* C4 as claimed: after handle_fetch_error, with a payload on display, the
\* metric values, the app list and the retained raw payload are what they
\* were before.
C4_FailureKeepsRawPayload ==
    [][ (Ran("handle_fetch_error") /\ raw_data_text[1] = "json")
        => /\ metric_labels' = metric_labels
           /\ app_list_text' = app_list_text
           /\ raw_data_text' = raw_data_text ]_vars

\* C4 as amended: handle_fetch_error leaves every metric value and the app
\* list as they were; it replaces the raw-data text by the error text and
\* the status bar by the red error message, and changes nothing else of
\* the session.
C4_FailureKeepsMetrics ==
    [][ Ran("handle_fetch_error")
        => /\ metric_labels' = metric_labels
           /\ app_list_text' = app_list_text
           /\ raw_data_text' = RawError(NextSignal.message)
           /\ status_bar' = Status(<<"Error: ", NextSignal.message>>, "red")
           /\ UNCHANGED <<current_config, nc_url, nc_token,
                          refresh_interval_ms, refresh_timer>> ]_vars

\* A failure was handled while a snapshot was on display: the labels still
\* show it and the raw text shows the error.
C4_Witness ==
    /\ lastOp.op = "handle_fetch_error"
    /\ SnapshotShown
    /\ raw_data_text[1] # "json" /\ raw_data_text # RawLoading

\* C5: after apply_new_config(c) the active configuration and the URL and
\* token of the next dispatch are c's, every metric value, the app list
\* and the raw text show their placeholders, the timer runs with a full
\* period of the refresh interval, and one fetch for c has been started,
\* all in the one step of the handler.
C5_SwitchConfigPostState ==
    [][ (Ran("apply_new_config") \/ Ran("init"))
        => LET c == lastOp'.cfg
           IN /\ current_config' = c
              /\ nc_url' = c.url
              /\ nc_token' = c.token
              /\ \A k \in MetricKeys : metric_labels'[k] = NA
              /\ app_list_text' = AppsLoading
              /\ raw_data_text' = RawLoading
              /\ refresh_timer'.active
              /\ refresh_timer'.interval = refresh_interval_ms'
              /\ refresh_timer'.remaining = refresh_interval_ms'
              /\ Ran("apply_new_config")
                    => refresh_interval_ms' = refresh_interval_ms
              /\ DispatchedOne(c.url, c.token)
              /\ signal_queue' = signal_queue ]_vars

\* A switch to the second server happened while the fetch for the first
\* server was outstanding: the timer shows a full period and the second
\* worker is the new server's.
C5_Witness ==
    /\ lastOp.op = "apply_new_config"
    /\ current_config = CfgB
    /\ Len(workers) = 2
    /\ workers[1].state = "queued" /\ workers[1].nc_url = CfgA.url
    /\ workers[2].nc_url = CfgB.url
    /\ refresh_timer.remaining = refresh_timer.interval


----------------------------------------------------------------------------
(* C6-C8: the refresh interval *)

\* C6: while the monitor runs, the refresh interval is a number of
\* milliseconds within [10000, 3600000], and so is the timer's period.
C6_IntervalInRange ==
    Running =>
      /\ refresh_interval_ms \in 10000..3600000
      /\ refresh_timer.interval \in 10000..3600000

\* The interval dialog was accepted with a request above the range, and
\* the interval has been moved off its default.
C6_Witness ==
    /\ lastOp.op = "interval_accept"
    /\ lastOp.req = 3601
    /\ refresh_interval_ms = 3600000

C8_SetIntervalEffect ==
    [][ (Ran("interval_accept")
          /\ 10000 <= lastOp'.req * 1000 /\ lastOp'.req * 1000 <= 3600000)
        => LET new_ms == lastOp'.req * 1000
           IN IF new_ms # refresh_interval_ms
              THEN /\ refresh_interval_ms' = new_ms
                   /\ refresh_timer' = [active |-> TRUE, interval |-> new_ms,
                                        remaining |-> new_ms]
                   /\ DispatchedOne(nc_url, nc_token)
              ELSE /\ refresh_interval_ms' = refresh_interval_ms
                   /\ refresh_timer' = refresh_timer
                   /\ workers' = workers ]_vars

\* The current interval was accepted again part-way through a period: the
\* timer was not restarted.
C8_WitnessSame ==
    /\ lastOp.op = "interval_accept"
    /\ lastOp.req * 1000 = refresh_interval_ms
    /\ refresh_timer.remaining < refresh_timer.interval

\* The interval was changed while a fetch was outstanding: a second worker
\* was started and the timer shows a full period of the new interval.
C8_WitnessChanged ==
    /\ lastOp.op = "interval_accept"
    /\ refresh_interval_ms = 10000
    /\ refresh_timer = [active |-> TRUE, interval |-> 10000, remaining |-> 10000]
    /\ Len(workers) = 2
    /\ lastOp.worker = 2


----------------------------------------------------------------------------
(* C9-C10: the life of one fetch, and polling after a failure *)

\* A worker never makes a second network attempt, never emits a second
\* signal, and its signal never runs a second handler; while it is queued
\* it has done none of these, and a signal is handled only once emitted.
OneAttemptOneOutcome ==
    \A i \in 1..Len(workers) :
        /\ workers[i].attempts <= 1
        /\ workers[i].emitted <= 1
        /\ workers[i].handled <= workers[i].emitted
        /\ workers[i].emitted = workers[i].attempts
        /\ workers[i].state = "queued" <=> workers[i].attempts = 0

\* The fetch of worker i is over: one attempt made, one signal emitted and
\* handled, the worker no longer outstanding.
Completed(i) ==
    /\ i <= Len(workers)
    /\ i \notin Outstanding
    /\ workers[i].attempts = 1
    /\ workers[i].emitted = 1
    /\ workers[i].handled = 1

\* C9: every dispatched fetch makes exactly one network attempt and, the
\* workers and the event loop being scheduled fairly, eventually delivers
\* exactly one outcome to a handler, after which it is no longer
\* outstanding; nothing attempts a failed request again.
C9_OneAttemptOneOutcome ==
    /\ []OneAttemptOneOutcome
    /\ \A i \in 1..MaxFetches : (i <= Len(workers)) ~> Completed(i)

\* One fetch has failed and been handled while a second one, dispatched
\* later, is still outstanding; the failed one was not attempted again.
C9_Witness ==
    /\ Len(workers) = 2
    /\ Completed(1)
    /\ raw_data_text[1] # "json" /\ raw_data_text # RawLoading
    /\ workers[2].state = "queued"

\* C10: a fetch failure leaves the timer active with its period unchanged,
\* and a timer tick, whenever the period ends, dispatches a new fetch for
\* the active configuration.
C10_PollingSurvivesFailure ==
    /\ [](Running =>
            /\ refresh_timer.active
            /\ refresh_timer.interval = refresh_interval_ms
            /\ (refresh_timer.remaining = 0 /\ CanDispatch) => ENABLED Tick)
    /\ [][ /\ Ran("handle_fetch_error")
              => /\ refresh_timer' = refresh_timer
                 /\ refresh_interval_ms' = refresh_interval_ms
                 /\ phase' = "running"
           /\ Ran("tick")
              => /\ DispatchedOne(current_config.url, current_config.token)
                 /\ current_config' = current_config
                 /\ refresh_timer'.active
                 /\ refresh_timer'.remaining = refresh_interval_ms ]_vars

\* The first fetch failed and its error is on display; the period then
\* ended and the tick dispatched a second fetch for the active server.
C10_Witness ==
    /\ lastOp.op = "tick"
    /\ Len(workers) = 2
    /\ workers[1].handled = 1
    /\ raw_data_text[1] # "json" /\ raw_data_text # RawLoading
    /\ workers[2] = NextcloudWorker(current_config.url, current_config.token)


----------------------------------------------------------------------------
(* C11-C13: the snapshot *)

\* The payload of the signal the GUI thread handles next.
NextBody == NextSignal.data.body

\* The labels `labels` and the app list `apps` show the texts that
\* update_gui_metrics derives from `data`.
FullSnapshotOf(labels, apps, data) ==
    /\ \A k \in MetricKeys : labels[k] = LabelText(k, data)
    /\ apps = AppListOf(data)

\* C11: handling the success of a fetch never ends in a processing error:
\* for every 'ok' payload, whichever of its groups or fields are absent or
\* of the wrong type, update_gui_metrics writes every label and opens no
\* "Data Processing Error" box.
C11_NormalizationTotal ==
    [][ Ran("update_gui_metrics")
        => /\ modal' = modal
           /\ \A k \in MetricKeys : ShowsPayload(metric_labels'[k]) ]_vars

\* C12: after update_gui_metrics has handled one payload, either the
\* labels, the app list and the raw text all derive from that payload, or
\* none of the three has changed.
C12_SnapshotAllOrNothing ==
    [][ Ran("update_gui_metrics")
        => \/ /\ FullSnapshotOf(metric_labels', app_list_text',
                                NextSignal.data)
              /\ raw_data_text' = RawJson(NextSignal.data)
           \/ /\ metric_labels' = metric_labels
              /\ app_list_text' = app_list_text
              /\ raw_data_text' = raw_data_text ]_vars

\* C13: in every state there is a text for every metric key, a successful
\* update_gui_metrics writes the text of its payload to every one of these
\* keys, and a configuration switch (as the construction of the window)
\* resets every one of them to the placeholder: the keys written are the
\* keys reset.
C13_SnapshotKeysStable ==
    /\ [](DOMAIN metric_labels = MetricKeys)
    /\ [][ (Ran("update_gui_metrics") /\ modal' = modal)
           => { k \in MetricKeys :
                   metric_labels'[k] = LabelText(k, NextSignal.data) }
              = MetricKeys ]_vars
    /\ [][ (Ran("apply_new_config") \/ Ran("init"))
           => { k \in MetricKeys : metric_labels'[k] = NA } = MetricKeys ]_vars

\* A payload fetched for the second server is on display: every key was
\* reset by the switch and then written by the update.
C13_Witness ==
    /\ lastOp.op = "update_gui_metrics"
    /\ current_config = CfgB
    /\ \A k \in MetricKeys :
          ShowsPayload(metric_labels[k]) /\ metric_labels[k][3] = CfgB.url

----------------------------------------------------------------------------
(* C14-C16: scheduling *)

\* The timer's period has run out.
Due == refresh_timer.active /\ refresh_timer.remaining = 0

\* The steps that are a cycle start, a configuration switch or an
\* interval change.
SchedulerStep ==
    \/ Ran("tick") \/ Ran("manual_refresh")
    \/ Ran("apply_new_config") \/ Ran("interval_accept")

\* C14: while a fetch is outstanding, the timer tick (once due), Manual
\* Refresh, the two dialogs, the interval change and the configuration
\* switch are enabled, and each of them is one step that leaves every
\* outstanding fetch outstanding: none waits for a network call.  (The
\* model's budget of workers must allow one more.)
C14_SchedulerNeverBlocks ==
    /\ []( (Running /\ Outstanding # {} /\ CanDispatch)
           => /\ Due => ENABLED Tick
              /\ MainWindowEnabled
                   => /\ ENABLED ManualRefresh
                      /\ ENABLED OpenIntervalDialog
                      /\ ENABLED OpenServerDialog
              /\ TopIs("interval")
                   => \A seconds \in RequestedSeconds :
                         ENABLED IntervalAccept(seconds)
              /\ TopIs("server")
                   => \A row \in 1..Len(server_configs) :
                         ENABLED ServerAccept(row) )
    /\ [][ SchedulerStep
           => \A i \in Outstanding : workers'[i] = workers[i] ]_vars

\* Manual Refresh ran to its end while the first fetch was outstanding,
\* and so two fetches are.
C14_Witness ==
    /\ lastOp.op = "manual_refresh"
    /\ Outstanding = {1, 2}

\* The session: the active configuration, URL and token, the interval,
\* the timer's setting and what the display shows.
Session ==
    <<current_config, nc_url, nc_token, refresh_interval_ms,
      refresh_timer.active, refresh_timer.interval,
      metric_labels, app_list_text, raw_data_text>>

\* A cycle start, a cycle completion, a configuration switch or an
\* interval change.
SessionStep ==
    \/ Ran("init") \/ Ran("tick") \/ Ran("manual_refresh")
    \/ Ran("update_gui_metrics") \/ Ran("handle_fetch_error")
    \/ Ran("apply_new_config") \/ Ran("interval_accept")

\* update_gui_metrics has written the raw text and waits in its except
\* clause for the message box to be closed; its update_status is to come.
CompletionInProgress ==
    \E i \in 1..Len(modal) : modal[i].kind = "msgbox"

\* C15: the session is changed only by a cycle start, a cycle completion,
\* a configuration switch or an interval change; none of these runs while
\* another of them has begun and not ended; and the step of a worker
\* thread changes nothing of the session nor of the status bar.
C15_SessionMutationsExclusive ==
    /\ [][ Session' # Session => SessionStep ]_vars
    /\ [][ SessionStep => ~CompletionInProgress ]_vars
    /\ [][ Ran("run") => (Session' = Session /\ status_bar' = status_bar) ]_vars

\* C16: the signals of the workers are queued in the order the fetches
\* complete and handled one at a time in that order; the display shows
\* the placeholders after a configuration switch, the snapshot of the
\* payload after update_gui_metrics has handled a successful fetch, and
\* every other step leaves the metric values and the app list alone: the
\* snapshot on display is that of the last success handled since the last
\* switch.
C16_AppliedInCompletionOrder ==
    /\ [][ Ran("run")
           => /\ Len(signal_queue') = Len(signal_queue) + 1
              /\ SubSeq(signal_queue', 1, Len(signal_queue)) = signal_queue
              /\ signal_queue'[Len(signal_queue')].worker = lastOp'.worker
       ]_vars
    /\ [][ (Ran("update_gui_metrics") \/ Ran("handle_fetch_error"))
           => /\ signal_queue' = Tail(signal_queue)
              /\ lastOp'.worker = NextSignal.worker ]_vars
    /\ [][ Ran("update_gui_metrics")
           => /\ FullSnapshotOf(metric_labels', app_list_text',
                                NextSignal.data)
              /\ raw_data_text' = RawJson(NextSignal.data) ]_vars
    /\ [][ (Ran("apply_new_config") \/ Ran("init"))
           => /\ \A k \in MetricKeys : metric_labels'[k] = NA
              /\ app_list_text' = AppsLoading ]_vars
    /\ [][ ~(Ran("update_gui_metrics") \/ Ran("apply_new_config")
             \/ Ran("init"))
           => /\ metric_labels' = metric_labels
              /\ app_list_text' = app_list_text ]_vars

----------------------------------------------------------------------------
(* C17-C18: start of the program *)

\* C17: the program leaves its start either by exiting, which it does
\* exactly when no configuration was found, with status 1, no timer
\* running and no worker created; or by running, with the first
\* configuration found as the active one and one worker, the first,
\* created for that configuration's URL and token.
C17_Startup ==
    /\ [][ phase # phase'
           => /\ phase = "boot"
              /\ ScanDone
              /\ phase' = (IF server_configs = <<>> THEN "exited"
                                                    ELSE "running") ]_vars
    /\ []( phase = "exited"
           => /\ exit_code # 0 /\ exit_code # -1
              /\ ~refresh_timer.active
              /\ workers = <<>>
              /\ signal_queue = <<>> )
    /\ [][ Ran("init")
           => /\ current_config' = server_configs[1]
              /\ nc_url' = server_configs[1].url
              /\ nc_token' = server_configs[1].token
              /\ workers' = << NextcloudWorker(server_configs[1].url,
                                               server_configs[1].token) >>
       ]_vars
    /\ []( Running => workers # <<>> /\ exit_code = -1 )

\* The program runs on the first of two configurations, found behind a
\* file that was skipped.
C17_Witness ==
    /\ lastOp.op = "init"
    /\ Len(server_configs) = 2
    /\ script_dir.files[1] = FileShort
    /\ current_config = server_configs[1]
    /\ current_config # server_configs[2]
    /\ workers[1].nc_url = server_configs[1].url

\* The program has exited in a directory whose files are all skipped.
C17_WitnessExit ==
    /\ phase = "exited"
    /\ exit_code = 1
    /\ Len(script_dir.files) = MaxFiles

\* The positions of the lines of a file that are not blank and do not
\* start with '#'.
UsableLines(file) ==
    { i \in 1..Len(file.lines) :
         /\ file.lines[i].text # ""
         /\ ~(file.lines[i].lead = "" /\ StartsWithHash(file.lines[i].text)) }

\* The n-th smallest member of a set of positions.
RECURSIVE Nth(_, _)
Nth(positions, n) ==
    LET first == CHOOSE i \in positions : \A j \in positions : i <= j
    IN  IF n = 1 THEN first ELSE Nth(positions \ {first}, n - 1)

\* A file find_and_load_configs is to return: its name matches the
\* pattern, it can be read, it has two usable lines, the first of them
\* starts with 'http'.
ValidFile(file) ==
    /\ CONFIG_FILE_PATTERN(file.name)
    /\ file.readable
    /\ Cardinality(UsableLines(file)) >= 2
    /\ StartsWithHttp(file.lines[Nth(UsableLines(file), 1)].text)

\* config_list holds exactly the valid files among the first n of the
\* listing, in the listing's order, each with its first two usable lines
\* as URL and token.
LoadedFrom(config_list, files, n) ==
    LET valid == SelectSeq(SubSeq(files, 1, n), ValidFile)
    IN  /\ Len(config_list) = Len(valid)
        /\ \A i \in 1..Len(valid) :
              /\ config_list[i].path = valid[i].name
              /\ config_list[i].url =
                    valid[i].lines[Nth(UsableLines(valid[i]), 1)].text
              /\ config_list[i].token =
                    valid[i].lines[Nth(UsableLines(valid[i]), 2)].text

\* C18: for every directory listing, find_and_load_configs returns exactly
\* the files whose name matches the pattern and that have two usable
\* lines, the first starting with 'http', in the order of the listing; the
\* scan goes on after every file, whatever the file, until the listing
\* ends, and a file that is skipped removes nothing from the list.
C18_DiscoverySkipsBadFiles ==
    /\ []( LoadedFrom(server_configs, script_dir.files, script_dir.scanned) )
    /\ []( (phase = "boot" /\ ~ScanDone) => ENABLED ScanFile )
    /\ []( phase # "boot" => ScanDone )
    /\ [][ Ran("scan")
           => /\ script_dir'.scanned = script_dir.scanned + 1
              /\ SubSeq(server_configs', 1, Len(server_configs))
                    = server_configs ]_vars

\* The scan is over in a directory where a file that is skipped stands
\* between two good files: both good files were loaded, in that order.
C18_Witness ==
    /\ ScanDone
    /\ Len(script_dir.files) = 3
    /\ script_dir.files[1] = FileB
    /\ ~ValidFile(script_dir.files[2])
    /\ CONFIG_FILE_PATTERN(script_dir.files[2].name)
    /\ script_dir.files[3] = FileA
    /\ server_configs = <<CfgB, CfgA>>

----------------------------------------------------------------------------
(* C19-C20: the API error message and the byte counts *)

\* The signal the worker's step has queued.
Emitted == signal_queue'[Len(signal_queue')]

\* The message of the envelope of `resp`, or the words used without one.
ServerMessage(resp) ==
    IF resp.message = <<>> THEN "Unknown error" ELSE resp.message[1]

\* C19: when the answer is JSON whose envelope status is not 'ok', the
\* worker emits an error whose message is the server's message, or
\* 'Unknown error' without one, as an API status error: alone or behind
\* the words 'API Status Error: ', and not behind the words of another
\* kind of failure.
C19_ApiErrorMessage ==
    [][ (Ran("run") /\ lastOp'.req.kind = "json"
                    /\ lastOp'.req.status # "ok")
        => /\ Emitted.signal = "error"
           /\ Emitted.message \in
                 { <<ServerMessage(lastOp'.req)>>,
                   <<"API Status Error: ", ServerMessage(lastOp'.req)>> }
      ]_vars

\* The number a label shows for a byte count, in hundredths.
Hundredths(text) == text[5].hundredths

\* C20: after update_gui_metrics has written the labels, every byte count
\* among them (RAM used and total, swap used, opcache used and wasted,
\* storage used and free, database size, PHP memory limit) shows a number
\* that is not negative, and the RAM and swap labels show the kilobyte
\* figures of the payload times 1024.
C20_ByteCountsNonNegative ==
    [][ (Ran("update_gui_metrics") /\ modal' = modal)
        => /\ \A k \in ByteKeys : Hundredths(metric_labels'[k]) >= 0
           /\ metric_labels'["ram_total_val"][5] =
                 format_bytes(JInt(KbOf(NextBody, NextBody.mem_total) * 1024))
           /\ metric_labels'["ram_used_val"][5] =
                 format_bytes(JInt(
                    (KbOf(NextBody, NextBody.mem_total)
                       - KbOf(NextBody, NextBody.mem_free)) * 1024))
           /\ metric_labels'["swap_used_val"][5] =
                 format_bytes(JInt(
                    (KbOf(NextBody, NextBody.swap_total)
                       - KbOf(NextBody, NextBody.swap_free)) * 1024))
      ]_vars

----------------------------------------------------------------------------
(* C21-C25: the texts of the snapshot *)

\* The largest i with 1024 ** i <= n, for a byte count n > 0 given as a
\* JSON value.
LargestUnit(value) ==
    IF value.t = "big"
    THEN (IF value.o >= 0 THEN value.e ELSE value.e - 1)
    ELSE CHOOSE i \in 0..3 :
            /\ Pow1024(i) <= value.v
            /\ i < 3 => value.v < Pow1024(i + 1)

\* The text the unit rule gives for a byte count n >= 0: '0 Bytes' for 0,
\* else n / 1024 ** i with two decimals under the unit of index
\* i = min(8, LargestUnit).
UnitRuleText(value) ==
    LET i == IF LargestUnit(value) < 8 THEN LargestUnit(value) ELSE 8
    IN  IF value = JInt(0) THEN ZeroBytes
        ELSE IF value.t = "big" THEN BigText(value.e, value.o, i)
        ELSE ByteText(RoundHalfEven(value.v * 100, Pow1024(i)), sizes[i + 1])

\* C21: for every byte count n >= 0 that update_gui_metrics passes to
\* format_bytes, the label shows '0 Bytes' for n = 0 and otherwise
\* n / 1024 ** i under the unit of index i = min(8, largest i with
\* 1024 ** i <= n), also for n = 1024 ** i and n = 1024 ** i - 1.
C21_FormatBytesUnit ==
    [][ (Ran("update_gui_metrics") /\ modal' = modal
           /\ NextBody.used_memory \in ByteCounts)
        => metric_labels'["opcache_used_val"][5]
              = UnitRuleText(NextBody.used_memory) ]_vars

\* A part of an uptime text: singular name for 1, plural otherwise.
UptimePart(value, singular, plural) ==
    <<value, IF value = 1 THEN singular ELSE plural>>

NonZero(part) == part[1] # 0

\* The uptime text for a duration of s seconds: the sentinel up to 0, the
\* seconds below a minute, else the years, days, hours and minutes got by
\* successive division with remainder, those that are not 0, at most the
\* first three.
UptimeRuleText(s) ==
    LET years == s \div 31536000
        days == (s % 31536000) \div 86400
        hours == ((s % 31536000) % 86400) \div 3600
        minutes == (((s % 31536000) % 86400) % 3600) \div 60
        parts == SelectSeq(<< UptimePart(years, "year", "years"),
                              UptimePart(days, "day", "days"),
                              UptimePart(hours, "hour", "hours"),
                              UptimePart(minutes, "minute", "minutes") >>,
                           NonZero)
    IN  IF s <= 0 THEN << <<0, "N/A or Fresh Start">> >>
        ELSE IF s < 60 THEN << <<s, "seconds">> >>
        ELSE IF Len(parts) <= 3 THEN parts
        ELSE SubSeq(parts, 1, 3)

\* C22: the uptime label update_gui_metrics writes is the text of the
\* uptime rule for the time since the payload's start_time (0 without a
\* start time in the past).
C22_UptimeFormat ==
    [][ (Ran("update_gui_metrics") /\ modal' = modal)
        => metric_labels'["php_uptime_val"][5].words
              = UptimeRuleText(uptime_seconds(NextBody)) ]_vars

\* An uptime with years, days, hours and minutes is on display: three
\* parts are shown, all plural.
C22_Witness ==
    /\ lastOp.op = "update_gui_metrics"
    /\ ShowsPayload(metric_labels["php_uptime_val"])
    /\ metric_labels["php_uptime_val"][5].words
          = << <<3, "years">>, <<2, "days">>, <<2, "hours">> >>

\* An uptime of a year, a day, an hour and a minute is on display.
C22_WitnessSingular ==
    /\ lastOp.op = "update_gui_metrics"
    /\ ShowsPayload(metric_labels["php_uptime_val"])
    /\ metric_labels["php_uptime_val"][5].words
          = << <<1, "year">>, <<1, "day">>, <<1, "hour">> >>

\* The free space of the system as the payload gives it, coerced.
SystemFreespace(body) ==
    safe_int(Get(SystemField(body, body.freespace), JNull))

\* C23: the storage labels fall back exactly when 'used' and 'free' both
\* coerce to 0: then used is the 'Data Missing' text and free is the
\* system's free space with its annotation; otherwise, one of them being 0
\* included, both are the formatted byte counts and carry no annotation.
C23_StorageFallback ==
    [][ (Ran("update_gui_metrics") /\ modal' = modal)
        => LET used == metric_labels'["storage_used_val"][5]
               free == metric_labels'["storage_free_val"][5]
           IN  IF storage_used(NextBody) = 0 /\ storage_free(NextBody) = 0
               THEN /\ used.words = "0 Bytes (Data Missing)"
                    /\ free = [format_bytes(JInt(SystemFreespace(NextBody)))
                               EXCEPT !.words = "(System Freespace)"]
               ELSE /\ used = format_bytes(JInt(storage_used(NextBody)))
                    /\ free = format_bytes(JInt(storage_free(NextBody)))
                    /\ used.words # "0 Bytes (Data Missing)"
                    /\ free.words # "(System Freespace)" ]_vars

\* The fallback is on display: no storage figures, 4.00 KB free on the
\* system.
C23_Witness ==
    /\ lastOp.op = "update_gui_metrics"
    /\ ShowsPayload(metric_labels["storage_used_val"])
    /\ metric_labels["storage_used_val"][5].words = "0 Bytes (Data Missing)"
    /\ metric_labels["storage_free_val"][5]
          = [hundredths |-> 400, unit |-> "KB", words |-> "(System Freespace)"]

\* 'used' is 0 and 'free' is not: both are displayed plain.
C23_WitnessOneZero ==
    /\ lastOp.op = "update_gui_metrics"
    /\ ShowsPayload(metric_labels["storage_used_val"])
    /\ metric_labels["storage_used_val"][5] = ZeroBytes
    /\ metric_labels["storage_free_val"][5] = ByteText(200, "KB")

\* The app-list field is a mapping: an object, the empty one included.
AppIsMapping(body) == body.app \in {"dict", "empty"}

\* The sub-field of a mapping, and whether it is there and no sequence.
AppSubField(body, value) == IF body.app = "dict" THEN value ELSE Absent

NotASequence(value) == value # Absent /\ value.t # "array"

\* The length of a sub-field that is a sequence, 0 for one that is not
\* there.
LengthOf(value) == IF value = Absent THEN 0 ELSE Len(value.items)

\* The app section is degraded by the rule: the field is absent or no
\* mapping, or 'enabled' or 'installed' is there and is no sequence.
DegradedByRule(body) ==
    \/ ~AppIsMapping(body)
    \/ NotASequence(AppSubField(body, body.enabled))
    \/ NotASequence(AppSubField(body, body.installed))

\* C24: update_gui_metrics shows the 'Data Missing' counts and the fixed
\* diagnostic text exactly when the app section is degraded by the rule;
\* for every other payload, the empty mapping and empty lists included,
\* the two counts are the lengths of the lists.
C24_AppDegradation ==
    [][ (Ran("update_gui_metrics") /\ modal' = modal)
        => LET enabled == metric_labels'["enabled_apps_val"][5]
               total == metric_labels'["app_count_val"][5]
               apps == app_list_text'[4]
           IN  IF DegradedByRule(NextBody)
               THEN /\ enabled = Words("N/A (Data Missing)")
                    /\ total = Words("N/A (Data Missing)")
                    /\ apps.words
                         = "APP DATA IS MISSING FROM NEXTCLOUD API RESPONSE."
               ELSE /\ enabled = Number(LengthOf(
                           AppSubField(NextBody, NextBody.enabled)))
                    /\ total = Number(LengthOf(
                           AppSubField(NextBody, NextBody.installed)))
                    /\ apps.words = "" ]_vars

\* The lines of a text: the pieces between its newlines, none for the
\* empty text.
RECURSIVE SplitLines(_, _)
SplitLines(text, line) ==
    IF text = <<>> THEN <<line>>
    ELSE IF Head(text) = Newline THEN <<line>> \o SplitLines(Tail(text), <<>>)
    ELSE SplitLines(Tail(text), Append(line, Head(text)))

LinesOf(text) == IF text = <<>> THEN <<>> ELSE SplitLines(text, <<>>)

InOrder(lines) ==
    \A i \in 1..(Len(lines) - 1) : ~TextLess(lines[i + 1], lines[i])

\* C25: for an app section that is not degraded by the rule, the app list
\* has one line for every entry of 'enabled': as many lines as the
\* enabled-app count on display, which is the length of 'enabled', and
\* the lines are in lexicographic order.
C25_AppLines ==
    [][ (Ran("update_gui_metrics") /\ modal' = modal
           /\ ~DegradedByRule(NextBody))
        => LET lines == LinesOf(app_list_text'[4].text)
           IN  /\ metric_labels'["enabled_apps_val"][5] = Number(Len(lines))
               /\ Len(lines)
                    = LengthOf(AppSubField(NextBody, NextBody.enabled))
               /\ InOrder(lines) ]_vars

\* The part of C25 that does hold: the lines of the app list are in
\* lexicographic order after every update.
C25_LinesInOrder ==
    [][ (Ran("update_gui_metrics") /\ modal' = modal)
        => InOrder(LinesOf(app_list_text'[4].text)) ]_vars

\* C26: in every state after startup the recurring timer is active, its
\* period is the current refresh interval, and the time left of the
\* period is within it.
C26_TimerInvariant ==
    Running =>
        /\ refresh_timer.active
        /\ refresh_timer.interval = refresh_interval_ms
        /\ refresh_timer.remaining \in 0..refresh_interval_ms

\* The interval was changed and time has passed since: the timer runs at
\* the new period, part-way through it.
C26_Witness ==
    /\ Running
    /\ lastOp.op = "time"
    /\ refresh_interval_ms # DEFAULT_REFRESH_INTERVAL_MS
    /\ refresh_timer.active
    /\ refresh_timer.interval = refresh_interval_ms
    /\ refresh_timer.remaining = refresh_interval_ms - PartWayMs

\* The step ran start_fetch (a worker was appended), or an update that
\* reached its status message: both announce the next refresh.
StartedFetch == Len(workers') = Len(workers) + 1

Announces ==
    \/ StartedFetch
    \/ Ran("update_gui_metrics") /\ modal' = modal

\* The delay the status message announces: 'Next refresh/check at' now
\* plus this many milliseconds.
AnnouncedDelay(status) == status.message[2]

\* C27: whenever start_fetch or a successful update announces the next
\* refresh, the timer's next tick is due after exactly the announced
\* delay.
C27_AnnouncedNextRefresh ==
    [][ Announces
        => AnnouncedDelay(status_bar') = refresh_timer'.remaining ]_vars

\* The part of C27 that does hold: the start_fetch of a timer tick, of
\* startup, of a server switch and of an interval change announces the
\* time of the next tick.
C27_TimerCycleAnnouncement ==
    [][ (StartedFetch /\ ~Ran("manual_refresh"))
        => AnnouncedDelay(status_bar') = refresh_timer'.remaining ]_vars

\* The URL and the token worker i was created with.
TargetOf(ws, i) == Request(ws[i].nc_url, ws[i].nc_token)

\* C28: a fetch's target is fixed at dispatch.  No step changes the URL or
\* the token of a worker that exists; start_fetch creates its worker with
\* the URL and the token of the configuration that is active as the
\* handler ends, which after apply_new_config(c) is c; and a worker's
\* request, whenever it runs, goes to the URL and token it was created
\* with, whatever the session has become.
C28_TargetFixedAtDispatch ==
    [][ /\ \A i \in 1..Len(workers) :
              TargetOf(workers', i) = TargetOf(workers, i)
        /\ StartedFetch
              => /\ TargetOf(workers', Len(workers'))
                      = Request(current_config'.url, current_config'.token)
                 /\ nc_url' = current_config'.url
                 /\ nc_token' = current_config'.token
        /\ (StartedFetch /\ (Ran("apply_new_config") \/ Ran("init")))
              => TargetOf(workers', Len(workers'))
                    = Request(lastOp'.cfg.url, lastOp'.cfg.token)
        /\ Ran("run")
              => /\ lastOp'.cfg = TargetOf(workers, lastOp'.worker)
                 /\ LET sent == signal_queue'[Len(signal_queue')]
                    IN  sent.signal = "data_fetched"
                           => sent.data.server
                                 = workers[lastOp'.worker].nc_url ]_vars

\* The fetch dispatched for the first server ran after the switch to the
\* second: its request went to the first server, and the second worker
\* waits with the second server as its target.
C28_Witness ==
    /\ lastOp.op = "run"
    /\ lastOp.worker = 1
    /\ lastOp.cfg = Request(CfgA.url, CfgA.token)
    /\ current_config = CfgB
    /\ nc_url = CfgB.url
    /\ Len(workers) = 2
    /\ TargetOf(workers, 2) = Request(CfgB.url, CfgB.token)
    /\ signal_queue[Len(signal_queue)].signal = "data_fetched"
    /\ signal_queue[Len(signal_queue)].data.server = CfgA.url

\* C29: Manual Refresh leaves the active configuration, the refresh
\* interval, the timer (its period and the time left of it), every metric
\* value, the app list and the raw payload as they are; it writes the
\* status message of start_fetch and dispatches one worker for the active
\* configuration, and changes nothing else.
C29_ManualRefreshFrame ==
    [][ Ran("manual_refresh")
        => /\ current_config' = current_config
           /\ nc_url' = nc_url
           /\ nc_token' = nc_token
           /\ refresh_interval_ms' = refresh_interval_ms
           /\ refresh_timer' = refresh_timer
           /\ metric_labels' = metric_labels
           /\ app_list_text' = app_list_text
           /\ raw_data_text' = raw_data_text
           /\ server_configs' = server_configs
           /\ signal_queue' = signal_queue
           /\ modal' = modal
           /\ phase' = phase
           /\ status_bar' = Status(<<"Fetching new data... Next refresh in ",
                                     refresh_interval_ms>>, "blue")
           /\ DispatchedOne(current_config.url, current_config.token) ]_vars

\* Manual Refresh was pressed part-way through a period, with the values
\* of a payload on display: the timer still has the rest of its period
\* and a second worker is queued.
C29_Witness ==
    /\ lastOp.op = "manual_refresh"
    /\ SnapshotShown
    /\ refresh_timer.remaining = refresh_interval_ms - PartWayMs
    /\ Len(workers) = 2
    /\ workers[2].state = "queued"
    /\ status_bar.color = "blue"

============================================================================
